---- MODULE Spec2Model ----
(***************************************************************************)
(* Serialization sinks of measureme: ByteVecSink, FileSerializationSink,   *)
(* the background-thread paged sink (PagedSerializationSinkShared +        *)
(* PagedWriter) and the synchronous paged sink (paged_serialization_sink2).*)
(* Threads call write_atomic / write_bytes_atomic on the sinks of one      *)
(* back-end; sinks are dropped once no call on them is in progress.        *)
(* The string table: StringTableBuilder allocating entries on a data sink  *)
(* and an index sink, and StringTable reading them back.                   *)
(***************************************************************************)
EXTENDS Integers, Sequences, FiniteSets, TLC

\* ------------------------------------------------------------------ bounds
MaxCalls == 3          \* write calls issued in one run by freely calling threads
BurstLen == 5          \* full-page writes of the burst workload
SeqLen == 4            \* operations of a generated sequential scenario, before the final drops
MaxAllocs == 3         \* allocations requested from one string table builder
MaxEvents == 2         \* events and guards requested from one profiler

\* --------------------------------------------------------------- constants
PAGE_HEADER_SIZE == 5
PAGE_SIZE == 8                 \* page_size handed to PagedSerializationSinkShared::new
INITIAL_FREE_BUFFERS == 3      \* vec![vec![0u8; page_size]; 3]
FILE_BUFFER_SIZE == 524288     \* vec![0; 1024 * 512]
BULK_THRESHOLD == 128          \* bytes.len() < 128

Threads == {1, 2}
Sinks == {1, 2}
Backends == {"vec", "file", "paged", "paged2"}

\* EVENT_DATA = 42, STRING_DATA = 43
PageTag(s) == 41 + s

\* Sizes a caller passes as num_bytes, per back-end.  A paged writer accepts
\* at most page_size - PAGE_HEADER_SIZE bytes.
PagedSizes == {1, PAGE_SIZE - PAGE_HEADER_SIZE}
FileSizes == {100, BULK_THRESHOLD, FILE_BUFFER_SIZE - 100, FILE_BUFFER_SIZE + 1}
VecSizes == {0, 1, 2}

SizesFor(b) ==
    IF b = "file" THEN FileSizes
    ELSE IF b = "vec" THEN VecSizes
    ELSE PagedSizes

\* The sinks a back-end's harness creates.
SinkSetsFor(b) ==
    IF b \in {"vec", "file"} THEN {{1}} ELSE {{1}, {1, 2}}

VARIABLES
    backend,       \* which back-end this run uses
    sinks,         \* the sinks created at construction
    script,        \* operations a test still has to perform (<< >> outside tests)
    test,          \* 0: threads call freely; else the number of the test being run
    tpc,           \* per thread: "idle", "called" (before the lock), "locked", "panicked"
    tcall,         \* per thread: the call in progress
    done,          \* per sink: completed calls, in completion order, with returned Addr
    lock,          \* per sink: thread holding the sink's mutex, 0 if free
    alive,         \* per sink: created and not yet dropped
    buffer,        \* per paged writer: id of its current page buffer (0: Vec::new())
    buf_pos,       \* per sink: write cursor
    addr,          \* per sink: u32 address counter
    heap,          \* page buffers by id: their bytes
    freed,         \* ids of page buffers deallocated
    free_buffers,  \* the free pool (a stack of buffer ids)
    chan,          \* the mpsc channel: buffer ids, 0 is the zero-length Vec
    bgpc,          \* background worker: "recv", "push" (holds the pool's mutex), "exited"
    page,          \* the page the background worker holds (0: none)
    file,          \* bytes of the paged output file after its file header
    shpc,          \* drop of the shared state: "alive", "join", "done"
    sent,          \* pages handed to the channel by writers, in send order
    peak,          \* largest number of pages in flight at once so far
    data,          \* per ByteVecSink: its Vec<u8>
    ffile,         \* per FileSerializationSink: chunks written to the file
    fbuf,          \* per FileSerializationSink: chunks in buffer[0..buf_pos)
    id_counter,    \* StringTableBuilder::id_counter, an AtomicU32
    debug_assertions, \* debug build: debug_assert! and overflow checks compiled in
    apc,           \* per thread: position in an allocation of the string table
    acall,         \* per thread: the allocation in progress
    allocated,     \* allocations that returned, in return order
    events,        \* the events sink's stream: the bytes written, in address order
    guard,         \* per thread: the TimingGuard it holds (NoGuard: none)
    recorded       \* raw events recorded, in the order of their writes

threadVars == <<script, test, tpc, tcall, done>>
sinkVars == <<lock, alive, buffer, buf_pos, addr>>
pagedVars == <<heap, freed, free_buffers, chan, bgpc, page, file, shpc, sent, peak>>
otherVars == <<data, ffile, fbuf>>
builderVars == <<id_counter, debug_assertions, apc, acall, allocated>>
profilerVars == <<events, guard, recorded>>
vars == <<backend, sinks, threadVars, sinkVars, pagedVars, otherVars, builderVars, profilerVars>>

\* ----------------------------------------------------------------- helpers
Zeros(n) == [i \in 1..n |-> 0]

\* The bytes the c-th call issued on sink s writes: fixed by the caller
\* before the call, different for every call.
Payload(s, c, n) == [i \in 1..n |-> 100 * (s - 1) + 10 * c + i]

Max(a, b) == IF a >= b THEN a ELSE b

Last(q) == q[Len(q)]
Front(q) == SubSeq(q, 1, Len(q) - 1)

\* u32::to_le_bytes, the byte order the page header does not use.
to_le_bytes(len) ==
    << len % 256, (len \div 256) % 256,
       (len \div 65536) % 256, (len \div 16777216) % 256 >>

\* u32::to_be_bytes
to_be_bytes(len) ==
    << (len \div 16777216) % 256, (len \div 65536) % 256,
       (len \div 256) % 256, len % 256 >>

\* fn write_page_header(buffer, tag, len)
write_page_header(buf, tag, len) ==
    [i \in 1..Len(buf) |->
        IF i = 1 THEN tag
        ELSE IF i \in 2..5 THEN to_be_bytes(len)[i - 1]
        ELSE buf[i]]

\* write(&mut buffer[buf_start..buf_end]) with the call's bytes
FillSlice(buf, buf_start, bytes) ==
    [i \in 1..Len(buf) |->
        IF i > buf_start /\ i <= buf_start + Len(bytes)
        THEN bytes[i - buf_start] ELSE buf[i]]

\* u32 addition, wrapping as outside debug builds.  A u32 v is held as v
\* below 2^31 and as v - 2^32 from 2^31 on (its 32-bit pattern read as i32),
\* and 0 <= n < 2^31.
WrappingAddU32(a, n) ==
    IF a >= 0 /\ n > 2147483647 - a
    THEN (a - 2147483647 - 1) + (n - 2147483647 - 1)
    ELSE a + n

\* An address counter that is never advanced.
StuckAddr(a, n) == a

\* *addr += num_bytes as u32
NextAddr(a, n) == WrappingAddU32(a, n)

\* The sum a + n does not fit a u32: a build with overflow checks panics at
\* the addition, one without wraps.
AddOverflows(a, n) == a < 0 /\ a + n >= 0

\* Bytes of the Vec<u8> a channel message or a buffer field denotes.
BytesOf(id) == IF id = 0 THEN << >> ELSE heap[id]

\* A page test that also refuses a write ending exactly at the page's end.
PageOverflowsEarly(pos, n, len) == pos + n >= len

\* if *buf_pos + num_bytes > buffer.len()
PageOverflows(pos, n, len) == pos + n > len

\* Pages a writer handed off that have not yet returned to the free pool:
\* swapped out and about to be sent, on the channel, or held by the worker.
InFlight(ch, pg, tc, pc) ==
    Len(SelectSeq(ch, LAMBDA m : m # 0)) + (IF pg # 0 THEN 1 ELSE 0)
    + Cardinality({t \in Threads : pc[t] = "locked" /\ tc[t].sw})

NoCall == [s |-> 0, n |-> 0, c |-> 0, bytes |-> << >>, st |-> 0, op |-> "none",
           sw |-> FALSE, payload |-> 0]

\* ------------------------------------------------------------- test scripts
W(s, bytes) == [k |-> "write", s |-> s, bytes |-> bytes]
D(s) == [k |-> "drop", s |-> s]

\* The operations of the tests of paged_serialization_sink.rs, in order:
\* test_single_page, test_two_pages, test_page_with_trailing_space,
\* test_alternating_page_tags_single, test_alternating_page_tags_multiple;
\* and, as script 6, a burst of full-page writes on one writer, as the
\* serialization benchmark produces: it outruns the free pool.
TestScript(k) ==
    CASE k = 1 -> << W(1, <<11, 22, 33>>), D(1) >>
      [] k = 2 -> << W(1, <<11, 22, 33>>), W(1, <<80, 70, 60>>), D(1) >>
      [] k = 3 -> << W(1, <<11, 22>>), W(1, <<10, 20>>), D(1) >>
      [] k = 4 -> << W(1, <<11, 22>>), W(2, <<10, 20>>), D(1), D(2) >>
      [] k = 5 -> << W(1, <<44, 55>>), W(2, <<50, 60, 70>>), W(1, <<88, 99>>),
                     W(2, <<140, 150>>), D(1), D(2) >>
      [] k = 6 -> [i \in 1..(BurstLen + 1) |->
                     IF i <= BurstLen
                     THEN W(1, Payload(1, i, PAGE_SIZE - PAGE_HEADER_SIZE))
                     ELSE D(1)]

\* with_test_sink creates one writer, with_two_test_sinks two.
TestSinks(k) == IF k <= 3 THEN {1} ELSE {1, 2}
Tests == 1..5
Scripts == 1..6

\* Generated sequential scenarios on two writers: every sequence of SeqLen
\* operations drawn from SeqAlphabet in which no writer is used after its
\* drop, followed by the drop of the writers still alive.  Write sizes are
\* 1, a full page's payload, and one byte more than a page can take.
SeqAlphabet ==
    << [k |-> "write", s |-> 1, n |-> 1],
       [k |-> "write", s |-> 1, n |-> PAGE_SIZE - PAGE_HEADER_SIZE],
       [k |-> "write", s |-> 1, n |-> PAGE_SIZE - PAGE_HEADER_SIZE + 1],
       [k |-> "write", s |-> 2, n |-> 1],
       [k |-> "write", s |-> 2, n |-> PAGE_SIZE - PAGE_HEADER_SIZE],
       [k |-> "drop", s |-> 1, n |-> 0],
       [k |-> "drop", s |-> 2, n |-> 0] >>

Scenarios == 0..(Len(SeqAlphabet) ^ SeqLen - 1)
FirstScenario == Cardinality(Scripts) + 1

\* The i-th operation of scenario code.
SeqOp(code, i) == SeqAlphabet[((code \div (Len(SeqAlphabet) ^ (i - 1))) % Len(SeqAlphabet)) + 1]

ValidScenario(code) ==
    \A i, j \in 1..SeqLen :
        (i < j /\ SeqOp(code, i).k = "drop") => SeqOp(code, j).s # SeqOp(code, i).s

DroppedIn(code, s) == \E i \in 1..SeqLen : SeqOp(code, i) = [k |-> "drop", s |-> s, n |-> 0]

SeqScript(code) ==
    [i \in 1..SeqLen |->
        IF SeqOp(code, i).k = "drop" THEN D(SeqOp(code, i).s)
        ELSE W(SeqOp(code, i).s, Payload(SeqOp(code, i).s, i, SeqOp(code, i).n))]
    \o (IF DroppedIn(code, 1) THEN << >> ELSE << D(1) >>)
    \o (IF DroppedIn(code, 2) THEN << >> ELSE << D(2) >>)

\* Generated runs of one writer that include empty writes: every sequence
\* of SeqLen writes of 0 bytes, 1 byte or a full page's payload, then the
\* writer's drop.  They are numbered below zero.
EmptyWriteSizes == <<0, 1, PAGE_SIZE - PAGE_HEADER_SIZE>>
EmptyWriteRuns == 0..(Len(EmptyWriteSizes) ^ SeqLen - 1)

EmptyWriteScript(code) ==
    [i \in 1..SeqLen |->
        W(1, Payload(1, i, EmptyWriteSizes[((code \div (Len(EmptyWriteSizes) ^ (i - 1)))
                                              % Len(EmptyWriteSizes)) + 1]))]
    \o << D(1) >>

\* ------------------------------------------------------------ string table
\* Constants of stringtable.rs.
TERMINATOR == 255
UTF8_CONTINUATION_MASK == 192
UTF8_CONTINUATION_BYTE == 128
MAX_STRING_ID == 1073741823
STRING_ID_MASK == 1073741823
MAX_PRE_RESERVED_STRING_ID == MAX_STRING_ID \div 2
METADATA_STRING_ID == MAX_PRE_RESERVED_STRING_ID + 1

\* u8 & u8
RECURSIVE BitAnd(_, _)
BitAnd(a, b) ==
    IF a = 0 \/ b = 0 THEN 0
    ELSE (a % 2) * (b % 2) + 2 * BitAnd(a \div 2, b \div 2)

\* id.0 & STRING_ID_MASK on the 32-bit pattern of id: the low 30 bits.
MaskStringId(id) == id % (STRING_ID_MASK + 1)

\* a < b and a <= b on u32 values held as 32-bit patterns.
U32Less(a, b) ==
    IF (a >= 0) = (b >= 0) THEN a < b ELSE a >= 0
U32LessEq(a, b) == a = b \/ U32Less(a, b)

\* LittleEndian::read_u32
read_u32_le(b) ==
    b[1] + 256 * b[2] + 65536 * b[3]
    + 16777216 * (IF b[4] >= 128 THEN b[4] - 256 ELSE b[4])

\* The file header of a stream: a 4-byte ASCII magic, then the format
\* version as a little-endian u32.
CURRENT_FILE_FORMAT_VERSION == 7
FILE_HEADER_SIZE == 8
FILE_MAGIC_STRINGTABLE_DATA == <<77, 77, 83, 68>>
FILE_MAGIC_STRINGTABLE_INDEX == <<77, 77, 83, 73>>
FileHeader(magic) == magic \o to_le_bytes(CURRENT_FILE_FORMAT_VERSION)

\* read_file_header: the version, or -1 for an error.
read_file_header(bytes, magic) ==
    IF Len(bytes) < FILE_HEADER_SIZE \/ SubSeq(bytes, 1, 4) # magic THEN -1
    ELSE read_u32_le(SubSeq(bytes, 5, 8))

strip_file_header(bytes) == SubSeq(bytes, FILE_HEADER_SIZE + 1, Len(bytes))

\* A str is held as the sequence of its chars (Unicode scalar values);
\* str::as_bytes is its UTF-8 encoding.
encode_utf8(c) ==
    IF c < 128 THEN << c >>
    ELSE IF c < 2048 THEN << 192 + (c \div 64), 128 + (c % 64) >>
    ELSE IF c < 65536
    THEN << 224 + (c \div 4096), 128 + ((c \div 64) % 64), 128 + (c % 64) >>
    ELSE << 240 + (c \div 262144), 128 + ((c \div 4096) % 64),
            128 + ((c \div 64) % 64), 128 + (c % 64) >>

RECURSIVE as_bytes(_)
as_bytes(s) == IF s = << >> THEN << >> ELSE encode_utf8(Head(s)) \o as_bytes(Tail(s))

\* impl SerializableString for str
SerializeStr(s) == as_bytes(s) \o << TERMINATOR >>

\* StringComponent::Value(s), StringComponent::Ref(id)
Value(s) == [k |-> "value", s |-> s, id |-> 0]
Ref(id) == [k |-> "ref", s |-> << >>, id |-> id]

\* The four bytes StringComponent::serialize writes for Ref(id)
RefBytes(id) == to_le_bytes(id)

\* StringComponent::serialize
SerializeComponent(c) ==
    IF c.k = "value" THEN as_bytes(c.s) ELSE RefBytes(c.id)

RECURSIVE SerializeComponents(_)
SerializeComponents(cs) ==
    IF cs = << >> THEN << >>
    ELSE SerializeComponent(Head(cs)) \o SerializeComponents(Tail(cs))

\* impl SerializableString for [StringComponent]
SerializeComposite(cs) == SerializeComponents(cs) \o << TERMINATOR >>

\* What alloc is handed: a str or a component list.
Plain(s) == [k |-> "str", s |-> s, cs |-> << >>]
Composite(cs) == [k |-> "composite", s |-> << >>, cs |-> cs]

\* s.serialize(mem) on a buffer of s.serialized_size() bytes
Serialize(v) == IF v.k = "str" THEN SerializeStr(v.s) ELSE SerializeComposite(v.cs)

\* The bytes serialize_index_entry writes
IndexEntry(id, a) == to_le_bytes(id) \o to_le_bytes(a)

\* deserialize_index_entry
deserialize_index_entry(b) ==
    [id |-> read_u32_le(SubSeq(b, 1, 4)), addr |-> read_u32_le(SubSeq(b, 5, 8))]

\* ----------------------------------------------------- string table reader
\* Outcomes of a read: a value, a panic (index out of bounds, missing key,
\* failed assertion), or no return at all (a loop or a recursion that
\* repeats the same state).
Panicked == [r |-> "panic", c |-> 0, len |-> 0]
NoChar == [r |-> "none", c |-> 0, len |-> 0]

\* char::try_from(codepoint).is_ok()
IsChar(codepoint) ==
    /\ codepoint >= 0
    /\ codepoint <= 1114111
    /\ ~(codepoint >= 55296 /\ codepoint <= 57343)

\* The match on char::try_from in decode_utf8_char; the comparison with the
\* re-encoded char is a debug_assert!.
CheckedChar(codepoint, len, bytes, dbg) ==
    IF ~IsChar(codepoint) THEN Panicked
    ELSE IF dbg /\ SubSeq(encode_utf8(codepoint) \o Zeros(8), 1, len) # SubSeq(bytes, 1, len)
    THEN Panicked
    ELSE [r |-> "some", c |-> codepoint, len |-> len]

\* fn decode_utf8_char(bytes) -> Option<(char, usize)>
decode_utf8_char(bytes, dbg) ==
    IF Len(bytes) = 0 THEN Panicked
    ELSE LET first_byte == bytes[1] IN
        IF BitAnd(first_byte, 128) = 0 THEN CheckedChar(first_byte, 1, bytes, dbg)
        ELSE IF BitAnd(first_byte, 224) = 192
        THEN IF Len(bytes) < 2 THEN Panicked
             ELSE CheckedChar(BitAnd(first_byte, 31) * 64 + BitAnd(bytes[2], 63),
                              2, bytes, dbg)
        ELSE IF BitAnd(first_byte, 240) = 224
        THEN IF Len(bytes) < 3 THEN Panicked
             ELSE CheckedChar(BitAnd(first_byte, 31) * 4096 + BitAnd(bytes[2], 63) * 64
                                + BitAnd(bytes[3], 63),
                              3, bytes, dbg)
        ELSE NoChar

\* while let Some((c, len)) = decode_utf8_char(&string_data[pos ..]): the
\* position and output when the loop ends.
RECURSIVE DecodeChars(_, _, _, _)
DecodeChars(string_data, pos, output, dbg) ==
    IF pos > Len(string_data) THEN [r |-> "panic", pos |-> pos, output |-> output]
    ELSE LET d == decode_utf8_char(SubSeq(string_data, pos + 1, Len(string_data)), dbg) IN
        IF d.r = "panic" THEN [r |-> "panic", pos |-> pos, output |-> output]
        ELSE IF d.r = "none" THEN [r |-> "ok", pos |-> pos, output |-> output]
        ELSE DecodeChars(string_data, pos + d.len, Append(output, d.c), dbg)

\* The reader's test for a reference: (byte & UTF8_CONTINUATION_MASK) ==
\* UTF8_CONTINUATION_BYTE
IsRefMarker(byte) == BitAnd(byte, UTF8_CONTINUATION_MASK) = UTF8_CONTINUATION_BYTE

\* A reader that takes the index to be sorted by id, and drops every entry
\* whose id is below one read before it.
StringTableNewSorted(string_data, index_data) ==
    LET body == strip_file_header(index_data)
        entries == [i \in 1..(Len(body) \div 8) |->
                        deserialize_index_entry(SubSeq(body, 8 * i - 7, 8 * i))]
        kept == {i \in DOMAIN entries :
                    \A j \in 1..(i - 1) : U32LessEq(entries[j].id, entries[i].id)}
        ids == {entries[i].id : i \in kept}
        last(id) == CHOOSE i \in kept :
                        /\ entries[i].id = id
                        /\ \A j \in kept : entries[j].id = id => j <= i
    IN  [r |-> "ok", string_data |-> string_data,
         index |-> [id \in ids |-> entries[last(id)].addr]]

\* StringTable::new: the table, or the reason there is none.
StringTableNew(string_data, index_data) ==
    LET string_data_format == read_file_header(string_data, FILE_MAGIC_STRINGTABLE_DATA)
        index_data_format == read_file_header(index_data, FILE_MAGIC_STRINGTABLE_INDEX)
        body == strip_file_header(index_data)
        entries == [i \in 1..(Len(body) \div 8) |->
                        deserialize_index_entry(SubSeq(body, 8 * i - 7, 8 * i))]
        ids == {entries[i].id : i \in DOMAIN entries}
        last(id) == CHOOSE i \in DOMAIN entries :
                        /\ entries[i].id = id
                        /\ \A j \in DOMAIN entries : entries[j].id = id => j <= i
    IN  IF string_data_format = -1 \/ index_data_format = -1 THEN [r |-> "err"]
        ELSE IF string_data_format # index_data_format THEN [r |-> "err"]
        ELSE IF string_data_format # CURRENT_FILE_FORMAT_VERSION THEN [r |-> "err"]
        ELSE IF Len(index_data) % 8 # 0 THEN [r |-> "panic"]
        ELSE [r |-> "ok", string_data |-> string_data,
              index |-> [id \in ids |-> entries[last(id)].addr]]

\* StringRef::write_to_string, appending to output.  active holds the ids
\* whose resolution is in progress up the call stack: entering one of them
\* again repeats the recursion without end.
RECURSIVE write_to_string(_, _, _, _, _)
RECURSIVE ResolveFrom(_, _, _, _, _)
write_to_string(table, id, output, active, dbg) ==
    IF id \notin DOMAIN table.index THEN [r |-> "panic", output |-> output]
    ELSE IF id \in active THEN [r |-> "diverges", output |-> output]
    ELSE ResolveFrom(table, table.index[id], output, active \cup {id}, dbg)

\* The loop of write_to_string, at position pos.
ResolveFrom(table, pos, output, active, dbg) ==
    IF pos < 0 \/ pos >= Len(table.string_data) THEN [r |-> "panic", output |-> output]
    ELSE LET byte == table.string_data[pos + 1] IN
        IF byte = TERMINATOR THEN [r |-> "ok", output |-> output]
        ELSE IF IsRefMarker(byte)
        THEN IF pos + 4 > Len(table.string_data) THEN [r |-> "panic", output |-> output]
             ELSE LET id == read_u32_le(SubSeq(table.string_data, pos + 1, pos + 4))
                      sub == write_to_string(table, id, output, active, dbg)
                  IN  IF sub.r # "ok" THEN sub
                      ELSE ResolveFrom(table, pos + 4, sub.output, active, dbg)
        ELSE LET run == DecodeChars(table.string_data, pos, output, dbg) IN
             IF run.r = "panic" THEN [r |-> "panic", output |-> run.output]
             ELSE IF run.pos = pos THEN [r |-> "diverges", output |-> run.output]
             ELSE ResolveFrom(table, run.pos, run.output, active, dbg)

\* table.get(id).to_string()
to_string(table, id, dbg) == write_to_string(table, id, << >>, {}, dbg)

\* ------------------------------------------------------------------- Init
\* PagedSerializationSinkShared::new creates the pool (ids 1..3), then
\* PagedWriter::new allocates one page buffer per writer.
InitHeap(b, ss) ==
    IF b = "paged" THEN [i \in 1..(INITIAL_FREE_BUFFERS + Cardinality(ss)) |-> Zeros(PAGE_SIZE)]
    ELSE IF b = "paged2" THEN [i \in 1..Cardinality(ss) |-> Zeros(PAGE_SIZE)]
    ELSE << >>

InitBuffer(b, ss) ==
    [s \in Sinks |->
        IF s \notin ss THEN 0
        ELSE IF b = "paged" THEN INITIAL_FREE_BUFFERS + s
        ELSE IF b = "paged2" THEN s
        ELSE 0]

\* No allocation in progress.
NoAlloc == [op |-> "none", v |-> [k |-> "str", s |-> << >>, cs |-> << >>], id |-> 0, addr |-> 0]

\* StringTableBuilder::new has set the counter; c is its value after the
\* alloc calls made so far, dbg the build's debug_assertions setting.
BuilderWith(c, dbg) ==
    /\ id_counter = c
    /\ debug_assertions = dbg
    /\ apc = [t \in Threads |-> "idle"]
    /\ acall = [t \in Threads |-> NoAlloc]
    /\ allocated = << >>

\* The sinks carry no string table.
NoBuilder == BuilderWith(0, FALSE)

\* No TimingGuard.
NoGuard == [event_kind |-> -1, event_id |-> -1, thread_id |-> -1]

\* No Profiler has been built on the sinks; es is what the events sink holds.
ProfilerWith(es) ==
    /\ events = es
    /\ guard = [t \in Threads |-> NoGuard]
    /\ recorded = << >>

NoProfiler == ProfilerWith(<< >>)

\* The state after construction of the sinks ss of back-end b, for a run
\* numbered k that has the operations sc to perform; d is what the
\* ByteVecSinks hold.
InitSinks(b, ss, k, sc, d) ==
    /\ backend = b
    /\ sinks = ss
    /\ test = k
    /\ script = sc
    /\ tpc = [t \in Threads |-> "idle"]
    /\ tcall = [t \in Threads |-> NoCall]
    /\ done = [s \in Sinks |-> << >>]
    /\ lock = [s \in Sinks |-> 0]
    /\ alive = [s \in Sinks |-> s \in ss]
    /\ buffer = InitBuffer(b, ss)
    /\ buf_pos = [s \in Sinks |-> IF b \in {"paged", "paged2"} THEN PAGE_HEADER_SIZE ELSE 0]
    /\ addr = [s \in Sinks |-> 0]
    /\ heap = InitHeap(b, ss)
    /\ freed = {}
    /\ free_buffers = IF b = "paged" THEN [i \in 1..INITIAL_FREE_BUFFERS |-> i] ELSE << >>
    /\ chan = << >>
    /\ bgpc = IF b = "paged" THEN "recv" ELSE "exited"
    /\ page = 0
    /\ file = << >>
    /\ shpc = "alive"
    /\ sent = << >>
    /\ peak = 0
    /\ data = d
    /\ ffile = [s \in Sinks |-> << >>]
    /\ fbuf = [s \in Sinks |-> << >>]

InitWith(b, ss, k, sc) ==
    InitSinks(b, ss, k, sc, [s \in Sinks |-> << >>]) /\ NoBuilder /\ NoProfiler

InitFor(b, ss, k) == InitWith(b, ss, k, IF k = 0 THEN << >> ELSE TestScript(k))

FreeInit(b) == \E ss \in SinkSetsFor(b) : InitFor(b, ss, 0)
ScriptInit == \E k \in Scripts : InitFor("paged", TestSinks(k), k)

Init == (\E b \in Backends : FreeInit(b)) \/ ScriptInit

\* A generated scenario run on either paged sink.
SeqInit ==
    \E b \in {"paged", "paged2"}, code \in Scenarios :
        /\ ValidScenario(code)
        /\ InitWith(b, {1, 2}, FirstScenario + code, SeqScript(code))

\* The first call a long-lived sink completed: FirstWrite(b) bytes at Addr(0).
FirstWrite(b) == IF b = "file" THEN 100 ELSE PAGE_SIZE - PAGE_HEADER_SIZE

\* A sink that has been written to for a long time: the bytes of its
\* completed calls add up to 2^32 - FirstWrite(b), which is the value of its
\* counter (held as the 32-bit pattern -FirstWrite(b)).  Of its history only
\* the first call is kept in done; file, sent and ffile hold what is written
\* from here on.  A paged writer's page holds the payload of its last call;
\* the file sink's buffer has just been flushed.  Both kinds of build.
LateInit ==
    \E b \in {"file", "paged", "paged2"}, dbg \in BOOLEAN :
        /\ backend = b
        /\ sinks = {1}
        /\ test = 0
        /\ script = << >>
        /\ tpc = [t \in Threads |-> "idle"]
        /\ tcall = [t \in Threads |-> NoCall]
        /\ done = [s \in Sinks |->
                      IF s = 1
                      THEN << [n |-> FirstWrite(b), c |-> 1,
                               bytes |-> IF b = "file" THEN << >>
                                         ELSE Payload(1, 1, FirstWrite(b)),
                               st |-> 0, op |-> "write_atomic", addr |-> 0] >>
                      ELSE << >>]
        /\ lock = [s \in Sinks |-> 0]
        /\ alive = [s \in Sinks |-> s = 1]
        /\ buffer = InitBuffer(b, {1})
        /\ buf_pos = [s \in Sinks |-> IF b = "file" THEN 0
                                       ELSE IF s = 1 THEN PAGE_SIZE ELSE PAGE_HEADER_SIZE]
        /\ addr = [s \in Sinks |-> IF s = 1 THEN 0 - FirstWrite(b) ELSE 0]
        /\ heap = IF b = "file" THEN << >>
                  ELSE [InitHeap(b, {1}) EXCEPT ![InitBuffer(b, {1})[1]] =
                            FillSlice(@, PAGE_HEADER_SIZE, Payload(1, 1, FirstWrite(b)))]
        /\ freed = {}
        /\ free_buffers = IF b = "paged" THEN [i \in 1..INITIAL_FREE_BUFFERS |-> i] ELSE << >>
        /\ chan = << >>
        /\ bgpc = IF b = "paged" THEN "recv" ELSE "exited"
        /\ page = 0
        /\ file = << >>
        /\ shpc = "alive"
        /\ sent = << >>
        /\ peak = 0
        /\ data = [s \in Sinks |-> << >>]
        /\ ffile = [s \in Sinks |-> << >>]
        /\ fbuf = [s \in Sinks |-> << >>]
        /\ BuilderWith(0, dbg)
        /\ NoProfiler

\* Both paged sinks: called freely, and run through the generated runs with
\* empty writes.
EmptyWriteInit ==
    \E b \in {"paged", "paged2"} :
        \/ FreeInit(b)
        \/ \E code \in EmptyWriteRuns : InitWith(b, {1}, -1 - code, EmptyWriteScript(code))

\* Calls in progress on sink s, and calls issued so far.
InProgress(s) == {t \in Threads : tpc[t] # "idle" /\ tcall[t].s = s}
IssuedOn(s) == Len(done[s]) + Cardinality(InProgress(s))
Issued == IssuedOn(1) + IssuedOn(2)

\* ------------------------------------------------------- calls by threads
\* A thread enters write_atomic / write_bytes_atomic on a live sink.  Only
\* FileSerializationSink overrides write_bytes_atomic; elsewhere it is the
\* trait's default, which calls write_atomic.
OpsFor(b) == IF b = "file" THEN {"write_atomic", "write_bytes_atomic"} ELSE {"write_atomic"}

\* The call record of the next call on sink s.  The file sink's calls are too
\* long to spell out byte by byte: their bytes are kept as the chunk <<c, n>>.
NewCall(s, n, bytes, op) ==
    [s |-> s, n |-> n, c |-> IssuedOn(s) + 1, bytes |-> bytes, st |-> Len(done[s]),
     op |-> op, sw |-> FALSE, payload |-> 0]

\* Threads are interchangeable: the idle thread of lowest number makes the
\* next call.  A test makes its calls one after another on one thread.
Call(t) ==
    /\ tpc[t] = "idle"
    /\ \A u \in Threads : u < t => tpc[u] # "idle"
    /\ IF test = 0
       THEN /\ Issued < MaxCalls
            /\ \E s \in sinks, n \in SizesFor(backend), op \in OpsFor(backend) :
                /\ alive[s]
                /\ tcall' = [tcall EXCEPT ![t] =
                                NewCall(s, n, IF backend = "file" THEN << >>
                                              ELSE Payload(s, IssuedOn(s) + 1, n), op)]
            /\ UNCHANGED script
       ELSE /\ t = 1
            /\ script # << >>
            /\ Head(script).k = "write"
            /\ tcall' = [tcall EXCEPT ![t] =
                            NewCall(Head(script).s, Len(Head(script).bytes),
                                    Head(script).bytes, "write_atomic")]
            /\ script' = Tail(script)
    /\ tpc' = [tpc EXCEPT ![t] = "called"]
    /\ UNCHANGED <<backend, sinks, builderVars, profilerVars, test, done, sinkVars, pagedVars, otherVars>>

\* Record of a completed call: the Addr it returned.
Completed(t, a) ==
    [n |-> tcall[t].n, c |-> tcall[t].c, bytes |-> tcall[t].bytes, st |-> tcall[t].st,
     op |-> tcall[t].op, addr |-> a]

Return(t, a) ==
    /\ done' = [done EXCEPT ![tcall[t].s] = Append(@, Completed(t, a))]
    /\ tpc' = [tpc EXCEPT ![t] = "idle"]
    /\ tcall' = [tcall EXCEPT ![t] = NoCall]
    /\ UNCHANGED <<script, test>>


\* The call of thread t panics at the addition to addr: the thread unwinds
\* and makes no further call, nothing is returned.
PanicsAtAdd(t) ==
    /\ tpc' = [tpc EXCEPT ![t] = "panicked"]
    /\ script' = << >>
    /\ UNCHANGED <<test, tcall, done>>

\* The counter's value after it is advanced.
AdvancedAddr(a, n) == a + n

\* Addr(curr_addr): the address a call returns is the counter's value
\* before it is advanced.
CurrAddr(a, n) == a

\* ------------------------------------------ background-thread paged sink
\* Taking the top of the pool without removing it from the pool.
PeekBuffer(pool, h) ==
    IF pool # << >>
    THEN [id |-> Last(pool), pool |-> pool, heap |-> h]
    ELSE [id |-> Len(h) + 1, pool |-> pool, heap |-> Append(h, Zeros(PAGE_SIZE))]

\* Allocating a fresh buffer whatever the pool holds.
AllocateBuffer(pool, h) ==
    [id |-> Len(h) + 1, pool |-> pool, heap |-> Append(h, Zeros(PAGE_SIZE))]

\* free_buffers.pop(), or vec![0u8; page_size] when the pool is empty.
\* Returns the buffer's id, the pool and the heap afterwards.
AcquireBuffer(pool, h) ==
    IF pool # << >>
    THEN [id |-> Last(pool), pool |-> Front(pool), heap |-> h]
    ELSE [id |-> Len(h) + 1, pool |-> pool, heap |-> Append(h, Zeros(PAGE_SIZE))]

\* A channel delivering the newest message first.
SendPageLifo(ch, id) == <<id>> \o ch

\* sx.send(payload): the channel is an unbounded FIFO.
SendPage(ch, id) == Append(ch, id)

\* A page returned to the pool as it is.
KeepPage(b) == b

\* for byte in page.iter_mut() { *byte = 0; }
ClearPage(b) == Zeros(Len(b))

\* A worker that never recognises the zero-length page.
NeverSentinel(b) == FALSE

\* if page.len() == 0 { break; }
IsSentinel(b) == Len(b) = 0

\* A shared state that could be dropped while writers live.
AlwaysDroppable == TRUE

\* The shared state is held in an Arc by every PagedWriter: its Drop runs
\* only after every writer's Drop has returned.
SharedDroppable == \A s \in Sinks : ~alive[s]

\* A sink is dropped only while no call borrows it.
NoCallOn(s) == \A t \in Threads : tpc[t] # "idle" => tcall[t].s # s

\* A sink may be dropped at any such moment; a test drops its sinks where
\* its script says so, after its calls have returned.
MayDrop(s) ==
    /\ alive[s]
    /\ NoCallOn(s)
    /\ test # 0 => /\ script # << >>
                   /\ Head(script).k = "drop"
                   /\ Head(script).s = s
                   /\ \A t \in Threads : tpc[t] = "idle"

Dropped(s) ==
    /\ alive' = [alive EXCEPT ![s] = FALSE]
    /\ script' = IF test # 0 THEN Tail(script) ELSE script

\* A size check that lets every size through.
NeverTooLarge(n) == FALSE

\* if num_bytes > self.shared_state.page_size - PAGE_HEADER_SIZE { panic!(..) }
TooLarge(n) == n > PAGE_SIZE - PAGE_HEADER_SIZE

\* PagedWriter::write_atomic with too many bytes: the panic comes before the
\* lock is taken.  The calling thread unwinds and makes no further call.
PagedWriteAtomicPanic(t) ==
    /\ backend = "paged"
    /\ tpc[t] = "called"
    /\ TooLarge(tcall[t].n)
    /\ tpc' = [tpc EXCEPT ![t] = "panicked"]
    /\ script' = << >>
    /\ UNCHANGED <<backend, sinks, builderVars, profilerVars, test, tcall, done, sinkVars, pagedVars, otherVars>>

\* A worker that takes the pool's mutex before rx.recv() and keeps it until
\* it leaves its loop.
PoolHeldWhileRunning == bgpc = "exited"

\* self.shared_state.free_buffers.lock() returns at once: the worker is not
\* between its own lock() and the end of its loop body.
PoolUnlocked == bgpc # "push"

\* A writer that waits for the worker to return a buffer when the pool is
\* empty.
PagedWriteAtomicLockWaits(t) ==
    /\ backend = "paged"
    /\ tpc[t] = "called"
    /\ ~TooLarge(tcall[t].n)
    /\ LET s == tcall[t].s
           n == tcall[t].n
           old == buffer[s]
       IN /\ lock[s] = 0
          /\ lock' = [lock EXCEPT ![s] = t]
          /\ tpc' = [tpc EXCEPT ![t] = "locked"]
          /\ IF PageOverflows(buf_pos[s], n, Len(BytesOf(old)))
             THEN LET hdr == [heap EXCEPT ![old] =
                                write_page_header(@, PageTag(s), buf_pos[s] - PAGE_HEADER_SIZE)]
                  IN /\ PoolUnlocked
                     /\ free_buffers # << >>
                     /\ buffer' = [buffer EXCEPT ![s] = Last(free_buffers)]
                     /\ free_buffers' = Front(free_buffers)
                     /\ heap' = hdr
                     /\ tcall' = [tcall EXCEPT ![t].sw = TRUE, ![t].payload = old]
                     /\ peak' = Max(peak, InFlight(chan, page, tcall', tpc'))
             ELSE UNCHANGED <<buffer, free_buffers, heap, tcall, peak>>
    /\ UNCHANGED <<backend, sinks, builderVars, profilerVars, script, test, done, alive, buf_pos, addr,
                   freed, chan, bgpc, page, file, shpc, sent, otherVars>>

\* PagedWriter::write_atomic up to the page swap: take the writer's lock and,
\* if the write does not fit, finish the page and replace the buffer.
PagedWriteAtomicLock(t) ==
    /\ backend = "paged"
    /\ tpc[t] = "called"
    /\ ~TooLarge(tcall[t].n)
    /\ LET s == tcall[t].s
           n == tcall[t].n
           old == buffer[s]
       IN /\ lock[s] = 0
          /\ lock' = [lock EXCEPT ![s] = t]
          /\ tpc' = [tpc EXCEPT ![t] = "locked"]
          /\ IF PageOverflows(buf_pos[s], n, Len(BytesOf(old)))
             THEN LET hdr == [heap EXCEPT ![old] =
                                write_page_header(@, PageTag(s), buf_pos[s] - PAGE_HEADER_SIZE)]
                      acq == AcquireBuffer(free_buffers, hdr)
                  IN /\ PoolUnlocked
                     /\ buffer' = [buffer EXCEPT ![s] = acq.id]
                     /\ free_buffers' = acq.pool
                     /\ heap' = acq.heap
                     /\ tcall' = [tcall EXCEPT ![t].sw = TRUE, ![t].payload = old]
                     /\ peak' = Max(peak, InFlight(chan, page, tcall', tpc'))
             ELSE UNCHANGED <<buffer, free_buffers, heap, tcall, peak>>
    /\ UNCHANGED <<backend, sinks, builderVars, profilerVars, script, test, done, alive, buf_pos, addr,
                   freed, chan, bgpc, page, file, shpc, sent, otherVars>>

\* PagedWriter::write_atomic from sx.send(payload) to the return.
PagedWriteAtomicFinish(t) ==
    /\ backend = "paged"
    /\ tpc[t] = "locked"
    /\ LET s == tcall[t].s
           n == tcall[t].n
           pos == IF tcall[t].sw THEN PAGE_HEADER_SIZE ELSE buf_pos[s]
       IN /\ chan' = IF tcall[t].sw THEN SendPage(chan, tcall[t].payload) ELSE chan
          /\ sent' = IF tcall[t].sw THEN Append(sent, heap[tcall[t].payload]) ELSE sent
          /\ heap' = [heap EXCEPT ![buffer[s]] = FillSlice(@, pos, tcall[t].bytes)]
          /\ buf_pos' = [buf_pos EXCEPT ![s] = pos + n]
          /\ lock' = [lock EXCEPT ![s] = 0]
          /\ IF debug_assertions /\ AddOverflows(addr[s], n)
             THEN UNCHANGED addr /\ PanicsAtAdd(t)
             ELSE /\ addr' = [addr EXCEPT ![s] = NextAddr(@, n)]
                  /\ Return(t, CurrAddr(addr[s], n))
    /\ UNCHANGED <<backend, sinks, builderVars, profilerVars, alive, buffer, freed, free_buffers, bgpc, page,
                   file, shpc, peak, otherVars>>

\* A drop that sends the current page only if it holds payload.
PagedWriterDropSkipsEmpty(s) ==
    /\ backend = "paged"
    /\ MayDrop(s)
    /\ LET old == buffer[s]
           hdr == write_page_header(heap[old], PageTag(s), buf_pos[s] - PAGE_HEADER_SIZE)
           empty == buf_pos[s] = PAGE_HEADER_SIZE
       IN /\ heap' = [heap EXCEPT ![old] = hdr]
          /\ buffer' = [buffer EXCEPT ![s] = 0]
          /\ chan' = IF empty THEN chan ELSE SendPage(chan, old)
          /\ sent' = IF empty THEN sent ELSE Append(sent, hdr)
          /\ peak' = Max(peak, InFlight(chan', page, tcall, tpc))
    /\ Dropped(s)
    /\ UNCHANGED <<backend, sinks, builderVars, profilerVars, test, tpc, tcall, done, lock, buf_pos, addr,
                   freed, free_buffers, bgpc, page, file, shpc, otherVars>>

\* Drop for PagedWriter: finish the current page and send it.
PagedWriterDrop(s) ==
    /\ backend = "paged"
    /\ MayDrop(s)
    /\ LET old == buffer[s]
           hdr == write_page_header(heap[old], PageTag(s), buf_pos[s] - PAGE_HEADER_SIZE)
       IN /\ heap' = [heap EXCEPT ![old] = hdr]
          /\ buffer' = [buffer EXCEPT ![s] = 0]
          /\ chan' = SendPage(chan, old)
          /\ sent' = Append(sent, hdr)
          /\ peak' = Max(peak, InFlight(chan', page, tcall, tpc))
    /\ Dropped(s)
    /\ UNCHANGED <<backend, sinks, builderVars, profilerVars, test, tpc, tcall, done, lock, buf_pos, addr,
                   freed, free_buffers, bgpc, page, file, shpc, otherVars>>

\* Drop for PagedSerializationSinkShared, first half: send the zero-length page.
SharedDropSend ==
    /\ backend = "paged"
    /\ shpc = "alive"
    /\ SharedDroppable
    /\ chan' = SendPage(chan, 0)
    /\ shpc' = "join"
    /\ UNCHANGED <<backend, sinks, builderVars, profilerVars, threadVars, sinkVars, heap, freed, free_buffers,
                   bgpc, page, file, sent, peak, otherVars>>

\* Drop for PagedSerializationSinkShared, second half: join_handle.join()
\* returns once the worker has left its loop; the pool is then deallocated.
SharedDropJoin ==
    /\ backend = "paged"
    /\ shpc = "join"
    /\ bgpc = "exited"
    /\ shpc' = "done"
    /\ freed' = freed \cup {free_buffers[i] : i \in 1..Len(free_buffers)}
    /\ free_buffers' = << >>
    /\ UNCHANGED <<backend, sinks, builderVars, profilerVars, threadVars, sinkVars, heap, chan, bgpc, page,
                   file, sent, peak, otherVars>>

\* Background worker: rx.recv(), then either leave the loop or write the
\* page to the file, clear it and take free_buffers.lock().  The mutex is
\* free: a writer holds it only inside its own step.
BgRecv ==
    /\ backend = "paged"
    /\ bgpc = "recv"
    /\ chan # << >>
    /\ LET p == Head(chan)
       IN /\ chan' = Tail(chan)
          /\ IF IsSentinel(BytesOf(p))
             THEN /\ bgpc' = "exited"
                  /\ UNCHANGED <<file, heap, page>>
             ELSE /\ file' = file \o BytesOf(p)
                  /\ heap' = IF p = 0 THEN heap ELSE [heap EXCEPT ![p] = ClearPage(@)]
                  /\ page' = p
                  /\ bgpc' = "push"
    /\ UNCHANGED <<backend, sinks, builderVars, profilerVars, threadVars, sinkVars, freed, free_buffers,
                   shpc, sent, peak, otherVars>>

\* Background worker: free_buffers.push(page), and the guard is released at
\* the end of the loop body.
BgPush ==
    /\ backend = "paged"
    /\ bgpc = "push"
    /\ free_buffers' = Append(free_buffers, page)
    /\ page' = 0
    /\ bgpc' = "recv"
    /\ UNCHANGED <<backend, sinks, builderVars, profilerVars, threadVars, sinkVars, heap, freed, chan,
                   file, shpc, sent, peak, otherVars>>


\* ----------------------------------------------------------- ByteVecSink
\* ByteVecSink::write_atomic: start = data.len(); resize; fill; Addr(start as u32).
VecWriteAtomic(t) ==
    /\ backend = "vec"
    /\ tpc[t] = "called"
    /\ LET s == tcall[t].s
           n == tcall[t].n
           start == Len(data[s])
       IN /\ lock[s] = 0
          /\ data' = [data EXCEPT ![s] = FillSlice(@ \o Zeros(n), start, tcall[t].bytes)]
          /\ addr' = [addr EXCEPT ![s] = Len(data'[s])]
          /\ Return(t, start)
    /\ UNCHANGED <<backend, sinks, builderVars, profilerVars, lock, alive, buffer, buf_pos, pagedVars, ffile, fbuf>>

\* ------------------------------------------------- FileSerializationSink
\* The bytes of one call are kept as a chunk <<call, length>>; the buffer
\* holds the chunks lying in buffer[0..buf_pos).
ChunkBytes(q) == IF q = << >> THEN 0 ELSE LET RECURSIVE Sum(_) Sum(i) == IF i = 0 THEN 0 ELSE q[i][2] + Sum(i - 1) IN Sum(Len(q))

\* A write_atomic that, when the bytes do not fit behind the pending ones,
\* writes the new bytes to the file and keeps the pending ones buffered.
FileWriteAtomicKeepsPending(f, b, pos, c, n) ==
    IF pos + n <= FILE_BUFFER_SIZE
    THEN [file |-> f, buf |-> Append(b, <<c, n>>), pos |-> pos + n]
    ELSE [file |-> f \o << <<c, n>> >>, buf |-> b, pos |-> pos]

\* FileSerializationSink::write_atomic, the body under the lock.
\* Returns the sink's file, buffer chunks and buf_pos afterwards.
FileWriteAtomicBody(f, b, pos, c, n) ==
    IF pos + n <= FILE_BUFFER_SIZE
    THEN [file |-> f, buf |-> Append(b, <<c, n>>), pos |-> pos + n]
    ELSE IF n <= FILE_BUFFER_SIZE
         THEN [file |-> f \o b, buf |-> << <<c, n>> >>, pos |-> n]
         ELSE [file |-> (f \o b) \o << <<c, n>> >>, buf |-> << >>, pos |-> 0]

\* A bulk write that goes to the file without flushing the buffer first.
FileWriteBytesNoFlush(f, b, pos, c, n) ==
    IF n < BULK_THRESHOLD
    THEN FileWriteAtomicBody(f, b, pos, c, n)
    ELSE [file |-> f \o << <<c, n>> >>, buf |-> b, pos |-> pos]

\* A bulk write that leaves behind what it flushed from the buffer.
FileWriteBytesDropBuffer(f, b, pos, c, n) ==
    IF n < BULK_THRESHOLD
    THEN FileWriteAtomicBody(f, b, pos, c, n)
    ELSE [file |-> f \o << <<c, n>> >>, buf |-> << >>, pos |-> 0]

\* FileSerializationSink::write_bytes_atomic, the body under the lock.
FileWriteBytesAtomicBody(f, b, pos, c, n) ==
    IF n < BULK_THRESHOLD
    THEN FileWriteAtomicBody(f, b, pos, c, n)
    ELSE IF pos > 0
         THEN [file |-> (f \o b) \o << <<c, n>> >>, buf |-> << >>, pos |-> 0]
         ELSE [file |-> f \o << <<c, n>> >>, buf |-> b, pos |-> pos]

FileWriteAtomic(t) ==
    /\ backend = "file"
    /\ tpc[t] = "called"
    /\ LET s == tcall[t].s
           n == tcall[t].n
           r == IF tcall[t].op = "write_bytes_atomic"
                THEN FileWriteBytesAtomicBody(ffile[s], fbuf[s], buf_pos[s], tcall[t].c, n)
                ELSE FileWriteAtomicBody(ffile[s], fbuf[s], buf_pos[s], tcall[t].c, n)
       IN /\ lock[s] = 0
          /\ IF debug_assertions /\ AddOverflows(addr[s], n)
             THEN UNCHANGED <<ffile, fbuf, buf_pos, addr>> /\ PanicsAtAdd(t)
             ELSE /\ ffile' = [ffile EXCEPT ![s] = r.file]
                  /\ fbuf' = [fbuf EXCEPT ![s] = r.buf]
                  /\ buf_pos' = [buf_pos EXCEPT ![s] = r.pos]
                  /\ addr' = [addr EXCEPT ![s] = NextAddr(@, n)]
                  /\ Return(t, CurrAddr(addr[s], n))
    /\ UNCHANGED <<backend, sinks, builderVars, profilerVars, lock, alive, buffer, pagedVars, data>>

\* Drop for FileSerializationSink: flush buffer[..buf_pos].
FileSinkDrop(s) ==
    /\ backend = "file"
    /\ MayDrop(s)
    /\ ffile' = [ffile EXCEPT ![s] = IF buf_pos[s] > 0 THEN @ \o fbuf[s] ELSE @]
    /\ Dropped(s)
    /\ UNCHANGED <<backend, sinks, builderVars, profilerVars, test, tpc, tcall, done, lock, buffer, buf_pos,
                   addr, pagedVars, data, fbuf>>

\* ------------------------------------------------ synchronous paged sink
\* assert!(num_bytes + PAGE_HEADER_SIZE <= self.shared_state.page_size)
FitsPage(n) == n + PAGE_HEADER_SIZE <= PAGE_SIZE

\* paged_serialization_sink2 PagedWriter::write_atomic with too many bytes:
\* the assertion fails before the lock is taken.
Paged2WriteAtomicPanic(t) ==
    /\ backend = "paged2"
    /\ tpc[t] = "called"
    /\ ~FitsPage(tcall[t].n)
    /\ tpc' = [tpc EXCEPT ![t] = "panicked"]
    /\ script' = << >>
    /\ UNCHANGED <<backend, sinks, builderVars, profilerVars, test, tcall, done, sinkVars, pagedVars, otherVars>>

\* paged_serialization_sink2 PagedWriter::write_atomic: a full page is
\* written to the file under the shared file mutex and the buffer is cleared
\* in place.
Paged2WriteAtomic(t) ==
    /\ backend = "paged2"
    /\ tpc[t] = "called"
    /\ FitsPage(tcall[t].n)
    /\ LET s == tcall[t].s
           n == tcall[t].n
           b == buffer[s]
           over == PageOverflows(buf_pos[s], n, Len(heap[b]))
           hdr == write_page_header(heap[b], PageTag(s), buf_pos[s] - PAGE_HEADER_SIZE)
           pos == IF over THEN PAGE_HEADER_SIZE ELSE buf_pos[s]
           buf == IF over THEN ClearPage(hdr) ELSE heap[b]
       IN /\ lock[s] = 0
          /\ file' = IF over THEN file \o hdr ELSE file
          /\ heap' = [heap EXCEPT ![b] = FillSlice(buf, pos, tcall[t].bytes)]
          /\ buf_pos' = [buf_pos EXCEPT ![s] = pos + n]
          /\ IF debug_assertions /\ AddOverflows(addr[s], n)
             THEN UNCHANGED addr /\ PanicsAtAdd(t)
             ELSE /\ addr' = [addr EXCEPT ![s] = NextAddr(@, n)]
                  /\ Return(t, CurrAddr(addr[s], n))
    /\ UNCHANGED <<backend, sinks, builderVars, profilerVars, lock, alive, buffer, freed, free_buffers, chan,
                   bgpc, page, shpc, sent, peak, otherVars>>

\* paged_serialization_sink2 Drop for PagedWriter: write the final page.
Paged2WriterDrop(s) ==
    /\ backend = "paged2"
    /\ MayDrop(s)
    /\ LET hdr == write_page_header(heap[buffer[s]], PageTag(s), buf_pos[s] - PAGE_HEADER_SIZE)
       IN /\ heap' = [heap EXCEPT ![buffer[s]] = hdr]
          /\ file' = file \o hdr
    /\ Dropped(s)
    /\ UNCHANGED <<backend, sinks, builderVars, profilerVars, test, tpc, tcall, done, lock, buffer, buf_pos,
                   addr, freed, free_buffers, chan, bgpc, page, shpc, sent, peak, otherVars>>

\* The synchronous paged sink run on its own, one operation after another:
\* its writers' buffers, cursors and counters, the file, the Addr returned
\* by each call, as a value.
Paged2Start ==
    [buf |-> [s \in Sinks |-> Zeros(PAGE_SIZE)],
     pos |-> [s \in Sinks |-> PAGE_HEADER_SIZE],
     addr |-> [s \in Sinks |-> 0],
     file |-> << >>,
     ret |-> [s \in Sinks |-> << >>],
     panicked |-> FALSE]

\* paged_serialization_sink2 PagedWriter::write_atomic as a function.
Paged2Write(st, s, bytes) ==
    LET n == Len(bytes)
        over == PageOverflows(st.pos[s], n, Len(st.buf[s]))
        hdr == write_page_header(st.buf[s], PageTag(s), st.pos[s] - PAGE_HEADER_SIZE)
        pos == IF over THEN PAGE_HEADER_SIZE ELSE st.pos[s]
        buf == IF over THEN ClearPage(hdr) ELSE st.buf[s]
    IN IF ~FitsPage(n) THEN [st EXCEPT !.panicked = TRUE]
       ELSE [st EXCEPT !.file = IF over THEN @ \o hdr ELSE @,
                       !.buf[s] = FillSlice(buf, pos, bytes),
                       !.pos[s] = pos + n,
                       !.addr[s] = NextAddr(@, n),
                       !.ret[s] = Append(@, CurrAddr(st.addr[s], n))]

\* paged_serialization_sink2 Drop for PagedWriter as a function.
Paged2Drop(st, s) ==
    [st EXCEPT !.file = @ \o write_page_header(st.buf[s], PageTag(s),
                                               st.pos[s] - PAGE_HEADER_SIZE)]

\* The operations ops performed in order; a panicking call ends the run.
RECURSIVE Paged2Run(_, _)
Paged2Run(st, ops) ==
    IF ops = << >> \/ st.panicked THEN st
    ELSE Paged2Run(IF Head(ops).k = "write"
                   THEN Paged2Write(st, Head(ops).s, Head(ops).bytes)
                   ELSE Paged2Drop(st, Head(ops).s),
                   Tail(ops))

\* --------------------------------------------------------- specifications
CallStep == \E t \in Threads : Call(t)
PagedLockStep == \E t \in Threads : PagedWriteAtomicLock(t)
PagedFinishStep == \E t \in Threads : PagedWriteAtomicFinish(t)
PagedDropStep == \E s \in Sinks : PagedWriterDrop(s)
VecStep == \E t \in Threads : VecWriteAtomic(t)
FileStep == \E t \in Threads : FileWriteAtomic(t)
FileDropStep == \E s \in Sinks : FileSinkDrop(s)
Paged2Step == \E t \in Threads : Paged2WriteAtomic(t)
Paged2DropStep == \E s \in Sinks : Paged2WriterDrop(s)

PagedNext ==
    \/ CallStep
    \/ PagedLockStep
    \/ PagedFinishStep
    \/ PagedDropStep
    \/ SharedDropSend
    \/ SharedDropJoin
    \/ BgRecv
    \/ BgPush

Next ==
    \/ PagedNext
    \/ VecStep
    \/ FileStep
    \/ FileDropStep
    \/ Paged2Step
    \/ Paged2DropStep

\* Every back-end.
Spec == Init /\ [][Next]_vars

\* The background-thread paged sink alone.
PagedInit == FreeInit("paged") \/ ScriptInit
SpecPaged == PagedInit /\ [][PagedNext]_vars

\* The scripted runs of the background-thread paged sink.
SpecTests == ScriptInit /\ [][PagedNext]_vars

\* The generated sequential scenarios, on both paged sinks.
PagedPanicStep == \E t \in Threads : PagedWriteAtomicPanic(t)
Paged2PanicStep == \E t \in Threads : Paged2WriteAtomicPanic(t)

SeqNext ==
    \/ PagedNext
    \/ Paged2Step
    \/ Paged2DropStep
    \/ PagedPanicStep
    \/ Paged2PanicStep

SpecSeq == SeqInit /\ [][SeqNext]_vars


\* Runs whose writer operations come in a fixed order: the scripted tests
\* and the generated scenarios.
SpecOrdered == (SeqInit \/ ScriptInit) /\ [][SeqNext]_vars

\* Both paged sinks, empty writes included.
BothPagedNext ==
    \/ PagedNext
    \/ Paged2Step
    \/ Paged2DropStep

SpecBothPaged == EmptyWriteInit /\ [][BothPagedNext]_vars

\* The sinks with a u32 address counter, late in their life.
LateNext ==
    \/ BothPagedNext
    \/ FileStep
    \/ FileDropStep

SpecLate == LateInit /\ [][LateNext]_vars

\* The worker thread runs whenever it can, and a thread blocked in join
\* resumes once the worker has returned.
LiveSpecPaged ==
    SpecPaged /\ WF_vars(BgRecv) /\ WF_vars(BgPush) /\ WF_vars(SharedDropJoin)

\* --------------------------------------------------- string table builder
\* Three harnesses of a StringTableBuilder on a pair of sinks (sink 1 is the
\* data sink, sink 2 the index sink): "table_test" allocates from one
\* thread, as the tests of stringtable.rs do; "table_shared" is a builder
\* shared by the threads; "profiler" is the builder inside a Profiler, which
\* also owns the events sink; "composite_string" is the test of that name,
\* its allocations made in the test's order.
TableBackends == {"table_test", "table_shared", "profiler", "composite_string"}
DataSink == 1
IndexSink == 2

\* Strings of 'a', "abc", and one char of each UTF-8 length from 2 to 4.
TestStrings == { << >>, <<97>>, <<97, 98, 99>>, <<233>>, <<8364>>, <<65536>> }
SharedStrings == { <<97>>, <<98, 99>> }

\* The metadata blob Profiler::new records: "{}" stands for the JSON text.
MetadataString == <<123, 125>>

\* Ids the callers hold: those the builder has returned.
IssuedIds == {allocated[i].id : i \in DOMAIN allocated}

\* Ids a caller can build a Ref from: those the builder has returned, and
\* one made with StringId::reserved.
RefTargets == IssuedIds \cup {128}

\* fn composite_string(): the allocations of ids 0, 1 and 6, each built from
\* the ids the earlier ones returned.
CompositeStringInputs ==
    IF Len(allocated) = 0 THEN {Plain(<<97, 98, 99>>)}
    ELSE IF Len(allocated) = 1
    THEN {Composite(<< Ref(allocated[1].id), Ref(allocated[1].id) >>)}
    ELSE IF Len(allocated) = 2
    THEN {Composite(<< Value(<<120, 120>>), Ref(allocated[2].id),
                       Value(<<117, 117, 117>>), Ref(allocated[2].id),
                       Value(<<113, 113, 113>>) >>)}
    ELSE {}

\* What a caller may hand to alloc.
AllocInputs ==
    IF backend = "composite_string" THEN CompositeStringInputs
    ELSE IF backend = "table_test"
    THEN {Plain(s) : s \in TestStrings}
         \cup {Composite(<< Value(a), Ref(x), Value(b) >>) :
                    a \in {<< >>, <<120>>}, b \in {<<113>>}, x \in RefTargets}
    ELSE IF backend = "profiler" THEN {Plain(<<97>>)}
    ELSE {Plain(s) : s \in SharedStrings}

\* Ids a caller may pass to StringId::reserved for alloc_with_reserved_id.
ReservedInputs ==
    IF backend = "table_test" THEN {128}
    ELSE IF backend \in {"profiler", "composite_string"} THEN {}
    ELSE {0, MAX_PRE_RESERVED_STRING_ID, METADATA_STRING_ID}

\* What a caller may hand to alloc_with_reserved_id.
ReservedValues ==
    IF backend = "table_test"
    THEN {Plain(<<97, 98, 99>>), Composite(<< Value(<<120>>), Ref(128), Value(<< >>) >>)}
    ELSE {Plain(s) : s \in SharedStrings}

AllocsIssued == Len(allocated) + Cardinality({t \in Threads : apc[t] # "idle"})

\* The counter of a fresh builder, of one that has issued every id below
\* MAX_STRING_ID, of one whose alloc has been called 2^32 - 1 times less
\* METADATA_STRING_ID + 1 (u32::MAX), and of one called METADATA_STRING_ID + 1
\* times more than that.
CounterStarts == {METADATA_STRING_ID + 1, MAX_STRING_ID, -1, METADATA_STRING_ID}

\* StringTableBuilder::new on two fresh sinks; the shared builder also at
\* the late counter values at which alloc's upper check comes into play.
TableInit ==
    \E b \in TableBackends \ {"profiler"}, c \in CounterStarts, dbg \in BOOLEAN :
        /\ b \in {"table_test", "composite_string"} => c = METADATA_STRING_ID + 1
        /\ c # METADATA_STRING_ID
        /\ InitSinks(b, {DataSink, IndexSink}, 0, << >>,
                     [s \in Sinks |-> IF s = DataSink
                                      THEN FileHeader(FILE_MAGIC_STRINGTABLE_DATA)
                                      ELSE FileHeader(FILE_MAGIC_STRINGTABLE_INDEX)])
        /\ BuilderWith(c, dbg)
        /\ NoProfiler

\* The entry alloc_metadata leaves in allocated.
MetadataAlloc ==
    [op |-> "alloc_metadata", v |-> Plain(MetadataString), id |-> METADATA_STRING_ID,
     addr |-> FILE_HEADER_SIZE]

\* The file header of the events stream
FILE_MAGIC_EVENT_STREAM == <<77, 77, 69, 83>>

\* Profiler::new is entered on thread 1 with the sinks just created and
\* empty; or, for a counter other than a fresh one, a Profiler later in its
\* session, whose sinks hold the headers and the metadata entry (what else
\* they held by then is left out).
ProfilerInit ==
    \E c \in CounterStarts, dbg \in BOOLEAN :
        /\ InitSinks("profiler", {DataSink, IndexSink}, 0, << >>,
                     [s \in Sinks |->
                        IF c = METADATA_STRING_ID + 1 THEN << >>
                        ELSE IF s = DataSink
                        THEN FileHeader(FILE_MAGIC_STRINGTABLE_DATA)
                             \o Serialize(MetadataAlloc.v)
                        ELSE FileHeader(FILE_MAGIC_STRINGTABLE_INDEX)
                             \o IndexEntry(MetadataAlloc.id, MetadataAlloc.addr)])
        /\ id_counter = c
        /\ debug_assertions = dbg
        /\ apc = [t \in Threads |->
                    IF t = 1 /\ c = METADATA_STRING_ID + 1 THEN "new_events" ELSE "idle"]
        /\ acall = [t \in Threads |-> NoAlloc]
        /\ allocated = IF c = METADATA_STRING_ID + 1 THEN << >> ELSE << MetadataAlloc >>
        /\ ProfilerWith(IF c = METADATA_STRING_ID + 1 THEN << >>
                        ELSE FileHeader(FILE_MAGIC_EVENT_STREAM))

\* Callers that could use a Profiler before its construction is over.
ConstructedEarly == TRUE

\* Profiler::new has returned the Profiler.
Constructed ==
    backend = "profiler" => \E i \in DOMAIN allocated : allocated[i].op = "alloc_metadata"

\* A construction that writes no header.
ProfilerNewNoHeaders(t) ==
    /\ apc[t] \in {"new_events", "new_data", "new_index"}
    /\ apc' = [apc EXCEPT ![t] = IF apc[t] = "new_events" THEN "new_data"
                                 ELSE IF apc[t] = "new_data" THEN "new_index"
                                 ELSE "called"]
    /\ acall' = IF apc[t] = "new_index"
                THEN [acall EXCEPT ![t] = [MetadataAlloc EXCEPT !.addr = 0]]
                ELSE acall
    /\ UNCHANGED <<backend, sinks, threadVars, sinkVars, pagedVars, otherVars,
                   id_counter, debug_assertions, allocated, profilerVars>>

\* Profiler::new and StringTableBuilder::new: the header of the events
\* stream, then of the string data, then of the string index, each one write
\* on its sink; then alloc_metadata is called.
ProfilerNew(t) ==
    /\ apc[t] \in {"new_events", "new_data", "new_index"}
    /\ events' = IF apc[t] = "new_events"
                 THEN events \o FileHeader(FILE_MAGIC_EVENT_STREAM) ELSE events
    /\ data' = IF apc[t] = "new_data"
               THEN [data EXCEPT ![DataSink] = @ \o FileHeader(FILE_MAGIC_STRINGTABLE_DATA)]
               ELSE IF apc[t] = "new_index"
               THEN [data EXCEPT ![IndexSink] = @ \o FileHeader(FILE_MAGIC_STRINGTABLE_INDEX)]
               ELSE data
    /\ apc' = [apc EXCEPT ![t] = IF apc[t] = "new_events" THEN "new_data"
                                 ELSE IF apc[t] = "new_data" THEN "new_index"
                                 ELSE "called"]
    /\ acall' = IF apc[t] = "new_index"
                THEN [acall EXCEPT ![t] = [MetadataAlloc EXCEPT !.addr = 0]]
                ELSE acall
    /\ UNCHANGED <<backend, sinks, threadVars, sinkVars, pagedVars, ffile, fbuf,
                   id_counter, debug_assertions, allocated, guard, recorded>>

\* alloc_metadata, up to alloc_unchecked: the id is METADATA_STRING_ID.
AllocMetadata(t) ==
    /\ apc[t] = "called"
    /\ acall[t].op = "alloc_metadata"
    /\ apc' = [apc EXCEPT ![t] = "unchecked"]
    /\ UNCHANGED <<backend, sinks, profilerVars, threadVars, sinkVars, pagedVars, otherVars,
                   id_counter, debug_assertions, acall, allocated>>

\* A thread enters alloc or alloc_with_reserved_id (Profiler::alloc_string
\* is alloc).
AllocCall(t) ==
    /\ backend \in TableBackends
    /\ Constructed
    /\ apc[t] = "idle"
    /\ \A u \in Threads : u < t => apc[u] # "idle"
    /\ backend \in {"table_test", "composite_string"} => t = 1
    /\ AllocsIssued < MaxAllocs
    /\ \/ \E v \in AllocInputs :
            acall' = [acall EXCEPT ![t] = [op |-> "alloc", v |-> v, id |-> 0, addr |-> 0]]
       \/ \E id \in ReservedInputs, v \in ReservedValues :
            acall' = [acall EXCEPT ![t] =
                        [op |-> "alloc_with_reserved_id", v |-> v, id |-> id, addr |-> 0]]
    /\ apc' = [apc EXCEPT ![t] = "called"]
    /\ UNCHANGED <<backend, sinks, profilerVars, threadVars, sinkVars, pagedVars, otherVars,
                   id_counter, debug_assertions, allocated>>

\* A counter that hands out the same value again.
StuckCounter(c) == c

\* self.id_counter.fetch_add(1, Ordering::SeqCst): the new counter value
FetchAdd(c) == WrappingAddU32(c, 1)

\* The two assertions of alloc on the id it drew.
AllocIdPasses(id, dbg) ==
    /\ id = MaskStringId(id)
    /\ dbg => U32Less(METADATA_STRING_ID, id)

\* alloc, up to alloc_unchecked: draw the id and check it.
AllocDrawId(t) ==
    /\ apc[t] = "called"
    /\ acall[t].op = "alloc"
    /\ id_counter' = FetchAdd(id_counter)
    /\ IF AllocIdPasses(id_counter, debug_assertions)
       THEN /\ acall' = [acall EXCEPT ![t].id = id_counter]
            /\ apc' = [apc EXCEPT ![t] = "unchecked"]
       ELSE /\ apc' = [apc EXCEPT ![t] = "panicked"]
            /\ UNCHANGED acall
    /\ UNCHANGED <<backend, sinks, profilerVars, threadVars, sinkVars, pagedVars, otherVars,
                   debug_assertions, allocated>>

\* assert!(id.0 <= MAX_PRE_RESERVED_STRING_ID)
ReservedIdPasses(id) == U32LessEq(id, MAX_PRE_RESERVED_STRING_ID)

\* An alloc_with_reserved_id that checks the id after the string is written.
AllocCheckReservedLate(t) ==
    /\ apc[t] = "called"
    /\ acall[t].op = "alloc_with_reserved_id"
    /\ data' = [data EXCEPT ![DataSink] = @ \o Serialize(acall[t].v)]
    /\ acall' = [acall EXCEPT ![t].addr = Len(data[DataSink])]
    /\ apc' = [apc EXCEPT ![t] = IF ReservedIdPasses(acall[t].id)
                                 THEN "written" ELSE "panicked"]
    /\ UNCHANGED <<backend, sinks, profilerVars, threadVars, sinkVars, pagedVars, ffile, fbuf,
                   id_counter, debug_assertions, allocated>>

\* alloc_with_reserved_id, up to alloc_unchecked.
AllocCheckReserved(t) ==
    /\ apc[t] = "called"
    /\ acall[t].op = "alloc_with_reserved_id"
    /\ apc' = [apc EXCEPT ![t] = IF ReservedIdPasses(acall[t].id)
                                 THEN "unchecked" ELSE "panicked"]
    /\ UNCHANGED <<backend, sinks, profilerVars, threadVars, sinkVars, pagedVars, otherVars,
                   id_counter, debug_assertions, acall, allocated>>

\* alloc_unchecked: data_sink.write_atomic(size_in_bytes, |mem| s.serialize(mem))
\* on a ByteVecSink, which returns the Vec's length before the write.
AllocWriteData(t) ==
    /\ apc[t] = "unchecked"
    /\ data' = [data EXCEPT ![DataSink] = @ \o Serialize(acall[t].v)]
    /\ acall' = [acall EXCEPT ![t].addr = Len(data[DataSink])]
    /\ apc' = [apc EXCEPT ![t] = "written"]
    /\ UNCHANGED <<backend, sinks, profilerVars, threadVars, sinkVars, pagedVars, ffile, fbuf,
                   id_counter, debug_assertions, allocated>>

\* An index write that asks the data sink for its current end instead of
\* using the address its own data write returned.
AllocWriteIndexCurrentEnd(t) ==
    /\ apc[t] = "written"
    /\ data' = [data EXCEPT ![IndexSink] =
                    @ \o IndexEntry(acall[t].id,
                                    Len(data[DataSink]) - Len(Serialize(acall[t].v)))]
    /\ allocated' = Append(allocated, acall[t])
    /\ apc' = [apc EXCEPT ![t] = "idle"]
    /\ acall' = [acall EXCEPT ![t] = NoAlloc]
    /\ UNCHANGED <<backend, sinks, profilerVars, threadVars, sinkVars, pagedVars, ffile, fbuf,
                   id_counter, debug_assertions>>

\* alloc_unchecked: serialize_index_entry(&*self.index_sink, id, addr); then
\* the allocation returns its id.
AllocWriteIndex(t) ==
    /\ apc[t] = "written"
    /\ data' = [data EXCEPT ![IndexSink] = @ \o IndexEntry(acall[t].id, acall[t].addr)]
    /\ allocated' = Append(allocated, acall[t])
    /\ apc' = [apc EXCEPT ![t] = "idle"]
    /\ acall' = [acall EXCEPT ![t] = NoAlloc]
    /\ UNCHANGED <<backend, sinks, profilerVars, threadVars, sinkVars, pagedVars, ffile, fbuf,
                   id_counter, debug_assertions>>

AllocCallStep == \E t \in Threads : AllocCall(t)
AllocDrawIdStep == \E t \in Threads : AllocDrawId(t)
AllocCheckReservedStep == \E t \in Threads : AllocCheckReserved(t)
AllocWriteDataStep == \E t \in Threads : AllocWriteData(t)
AllocWriteIndexStep == \E t \in Threads : AllocWriteIndex(t)
AllocMetadataStep == \E t \in Threads : AllocMetadata(t)
ProfilerNewStep == \E t \in Threads : ProfilerNew(t)

\* ---------------------------------------------------------------- profiler
\* A raw event is a fixed-size record: event_kind, event_id and thread_id as
\* little-endian u32, then the timestamp field, whose last byte tells an
\* instant from an interval.  The clock is not modelled: every time is 0.
RAW_EVENT_SIZE == 24
INSTANT_MARKER == 255

RawEvent(kind, id, thread, interval) ==
    [event_kind |-> kind, event_id |-> id, thread_id |-> thread, interval |-> interval]

\* raw_event.serialize(bytes)
RawEventBytes(e) ==
    to_le_bytes(e.event_kind) \o to_le_bytes(e.event_id) \o to_le_bytes(e.thread_id)
    \o Zeros(RAW_EVENT_SIZE - 13) \o << IF e.interval THEN 0 ELSE INSTANT_MARKER >>

\* The bytes of a sequence of raw events.
RECURSIVE SerializeAll(_)
SerializeAll(evs) ==
    IF evs = << >> THEN << >> ELSE RawEventBytes(Head(evs)) \o SerializeAll(Tail(evs))

\* The event kinds and ids callers pass.
EventKinds == {10}
EventIds == {20, 21}

EventsIssued == Len(recorded) + Cardinality({t \in Threads : guard[t] # NoGuard})

\* A recorder that asks the sink for one byte less than the record takes.
record_raw_event_short(e, by, arg) ==
    /\ events' = events \o SubSeq(RawEventBytes(e), 1, RAW_EVENT_SIZE - 1)
    /\ recorded' = Append(recorded, [e |-> e, by |-> by, arg |-> arg, addr |-> Len(events)])

\* Profiler::record_raw_event: one write_atomic of size_of::<RawEvent>()
\* bytes on the events sink.  recorded keeps, for each event, the operation
\* it came from, the event id that operation was given or held, and the
\* address the sink returned.
record_raw_event(e, by, arg) ==
    /\ events' = events \o RawEventBytes(e)
    /\ recorded' = Append(recorded, [e |-> e, by |-> by, arg |-> arg, addr |-> Len(events)])

\* Profiler::record_instant_event
RecordInstantEvent(t) ==
    /\ backend = "profiler"
    /\ Constructed
    /\ apc[t] = "idle"
    /\ EventsIssued < MaxEvents
    /\ \E kind \in EventKinds, id \in EventIds :
            record_raw_event(RawEvent(kind, id, t, FALSE), "instant", id)
    /\ UNCHANGED <<backend, sinks, threadVars, sinkVars, pagedVars, otherVars, builderVars,
                   guard>>

\* A guard that records an event as soon as it is created.
EagerGuardStart(t, kind, id) ==
    /\ guard' = [guard EXCEPT ![t] = [event_kind |-> kind, event_id |-> id, thread_id |-> t]]
    /\ record_raw_event(RawEvent(kind, id, t, TRUE), "start", id)

\* The TimingGuard start_recording_interval_event returns.
GuardStart(t, kind, id) ==
    /\ guard' = [guard EXCEPT ![t] = [event_kind |-> kind, event_id |-> id, thread_id |-> t]]
    /\ UNCHANGED <<events, recorded>>

\* Profiler::start_recording_interval_event
StartRecordingIntervalEvent(t) ==
    /\ backend = "profiler"
    /\ Constructed
    /\ apc[t] = "idle"
    /\ guard[t] = NoGuard
    /\ EventsIssued < MaxEvents
    /\ \E kind \in EventKinds, id \in EventIds : GuardStart(t, kind, id)
    /\ UNCHANGED <<backend, sinks, threadVars, sinkVars, pagedVars, otherVars, builderVars>>

\* Drop for TimingGuard: also runs when the thread unwinds from a panic.
GuardDrop(t) ==
    /\ guard[t] # NoGuard
    /\ apc[t] \in {"idle", "panicked"}
    /\ record_raw_event(RawEvent(guard[t].event_kind, guard[t].event_id,
                                 guard[t].thread_id, TRUE), "drop", guard[t].event_id)
    /\ guard' = [guard EXCEPT ![t] = NoGuard]
    /\ UNCHANGED <<backend, sinks, threadVars, sinkVars, pagedVars, otherVars, builderVars>>

\* TimingGuard::finish_with_override_event_id: self.event_id = event_id;
\* drop(self)
FinishWithOverrideEventId(t) ==
    /\ guard[t] # NoGuard
    /\ apc[t] = "idle"
    /\ \E id \in EventIds :
        LET self == [guard[t] EXCEPT !.event_id = id]
        IN  record_raw_event(RawEvent(self.event_kind, self.event_id, self.thread_id, TRUE),
                             "override", id)
    /\ guard' = [guard EXCEPT ![t] = NoGuard]
    /\ UNCHANGED <<backend, sinks, threadVars, sinkVars, pagedVars, otherVars, builderVars>>

RecordInstantStep == \E t \in Threads : RecordInstantEvent(t)
StartIntervalStep == \E t \in Threads : StartRecordingIntervalEvent(t)
GuardDropStep == \E t \in Threads : GuardDrop(t)
FinishOverrideStep == \E t \in Threads : FinishWithOverrideEventId(t)

\* The file PagedSinkConfig's three writers leave once the Profiler is
\* dropped.  A page is held as its tag, its payload length and its payload
\* (the zero padding up to PAGE_SIZE is left out); a stream no longer than
\* one page's payload, as every stream here is, lies in the single page its
\* writer sends when it is dropped.
PagedSinkConfig_PAGE_SIZE == 8388608      \* 8 * 1024 * 1024
FILE_MAGIC_PAGED_FORMAT == <<77, 77, 80, 68>>
EventsTag == 1
StringDataTag == 2
StringIndexTag == 3

PagesOfWriter(tag, stream) ==
    IF Len(stream) <= PagedSinkConfig_PAGE_SIZE - PAGE_HEADER_SIZE
    THEN << [tag |-> tag, payload_len |-> Len(stream), payload |-> stream] >>
    ELSE << >>

PagedProfilerFile ==
    [header |-> FileHeader(FILE_MAGIC_PAGED_FORMAT),
     pages |-> PagesOfWriter(EventsTag, events)
               \o PagesOfWriter(StringDataTag, data[DataSink])
               \o PagesOfWriter(StringIndexTag, data[IndexSink])]

\* The payloads of the pages carrying tag, concatenated in file order.
RECURSIVE PayloadsOf(_, _)
PayloadsOf(pages, tag) ==
    IF pages = << >> THEN << >>
    ELSE (IF Head(pages).tag = tag
          THEN SubSeq(Head(pages).payload, 1, Head(pages).payload_len) ELSE << >>)
         \o PayloadsOf(Tail(pages), tag)

PagedStream(tag) == PayloadsOf(PagedProfilerFile.pages, tag)

\* The builder's operations.
TableNext ==
    \/ AllocCallStep
    \/ AllocDrawIdStep
    \/ AllocCheckReservedStep
    \/ ProfilerNewStep
    \/ AllocMetadataStep
    \/ AllocWriteDataStep
    \/ AllocWriteIndexStep

\* String tables built by the three harnesses.
SpecTable == (TableInit \/ ProfilerInit) /\ [][TableNext]_vars

\* The profiler's operations: alloc_string and the event recorders.
ProfilerNext ==
    \/ ProfilerNewStep
    \/ AllocCallStep
    \/ AllocDrawIdStep
    \/ AllocMetadataStep
    \/ AllocWriteDataStep
    \/ AllocWriteIndexStep
    \/ RecordInstantStep
    \/ StartIntervalStep
    \/ GuardDropStep
    \/ FinishOverrideStep

\* A profiler session.
SpecProfiler == ProfilerInit /\ [][ProfilerNext]_vars

\* The table a reader builds from what the two sinks hold.
TableRead == StringTableNew(data[DataSink], data[IndexSink])

\* ------------------------------------------------- reading a paged file
Min(a, b) == IF a <= b THEN a ELSE b

from_be_bytes(b) == ((b[1] * 256 + b[2]) * 256 + b[3]) * 256 + b[4]

NumPages(f) == Len(f) \div PAGE_SIZE
PageAt(f, k) == SubSeq(f, (k - 1) * PAGE_SIZE + 1, k * PAGE_SIZE)
TagOf(p) == p[1]
PayloadLen(p) == from_be_bytes(SubSeq(p, 2, PAGE_HEADER_SIZE))
PayloadOf(p) == SubSeq(p, PAGE_HEADER_SIZE + 1, Min(PAGE_HEADER_SIZE + PayloadLen(p), Len(p)))

\* The payloads of the pages of f carrying tag, concatenated in file order.
RECURSIVE StreamUpTo(_, _, _)
StreamUpTo(f, tag, k) ==
    IF k = 0 THEN << >>
    ELSE StreamUpTo(f, tag, k - 1)
         \o (IF TagOf(PageAt(f, k)) = tag THEN PayloadOf(PageAt(f, k)) ELSE << >>)

StreamOf(f, tag) == StreamUpTo(f, tag, NumPages(f))

RECURSIVE Flatten(_)
Flatten(q) == IF q = << >> THEN << >> ELSE Head(q) \o Flatten(Tail(q))

\* Sum of the sizes of the first k completed calls on sink s.
RECURSIVE SizeSum(_, _)
SizeSum(s, k) == IF k = 0 THEN 0 ELSE SizeSum(s, k - 1) + done[s][k].n

\* ------------------------------------------------------------------ C1
\* C1: on every sink, the Addr a call returns equals the sum of the sizes of
\* the calls completed on that same sink before it (0 for the first); a
\* paged writer counts only its own payload bytes.
C1_AddrIsSumOfEarlierSizes ==
    \A s \in Sinks :
        /\ \A i \in 1..Len(done[s]) : done[s][i].addr = SizeSum(s, i - 1)
        /\ addr[s] = SizeSum(s, Len(done[s]))

\* A paged writer returns a non-zero Addr after another writer of the same
\* file has written and after a page of its own has been handed off.
C1_Witness ==
    /\ backend = "paged"
    /\ Len(done[1]) >= 2
    /\ Len(done[2]) >= 1
    /\ sent # << >>
    /\ done[1][2].addr = done[1][1].n
    /\ done[1][2].addr > 0

\* ------------------------------------------------------------------ C2
\* The byte ranges of two completed calls do not overlap.
Disjoint(x, y) == x.addr + x.n <= y.addr \/ y.addr + y.n <= x.addr

\* The bytes of call x lie, unbroken, inside the payload of one page of f
\* carrying tag, at offset x.addr of that tag's stream.
InOnePage(f, tag, x) ==
    \E k \in 1..NumPages(f) :
        LET before == Len(StreamUpTo(f, tag, k - 1))
        IN /\ TagOf(PageAt(f, k)) = tag
           /\ before <= x.addr
           /\ x.addr + x.n <= before + PayloadLen(PageAt(f, k))
           /\ SubSeq(PageAt(f, k), PAGE_HEADER_SIZE + (x.addr - before) + 1,
                     PAGE_HEADER_SIZE + (x.addr - before) + x.n) = x.bytes

\* Offset of the i-th chunk of q, in bytes.
ChunkOffset(q, i) == ChunkBytes(SubSeq(q, 1, i - 1))

\* Call x's chunk lies exactly once in the chunks q, at byte offset x.addr.
ChunkAt(q, x) ==
    /\ Cardinality({i \in 1..Len(q) : q[i][1] = x.c}) = 1
    /\ \A i \in 1..Len(q) :
           q[i][1] = x.c => q[i][2] = x.n /\ ChunkOffset(q, i) = x.addr

\* Where the output of sink s can be read in the current state, call x's
\* bytes lie contiguously in it at x.addr.  A live file sink's output is its
\* file followed by the bytes still buffered.
Contiguous(s, x) ==
    CASE backend = "vec" -> SubSeq(data[s], x.addr + 1, x.addr + x.n) = x.bytes
      [] backend = "file" ->
            ChunkAt(IF alive[s] THEN ffile[s] \o fbuf[s] ELSE ffile[s], x)
      [] backend = "paged" -> shpc = "done" => InOnePage(file, PageTag(s), x)
      [] backend = "paged2" ->
            (\A r \in Sinks : ~alive[r]) => InOnePage(file, PageTag(s), x)

\* C2: whatever the interleaving of the calls of several threads on one sink,
\* the ranges [addr, addr + n) returned are pairwise disjoint, each call's
\* bytes are contiguous in the output, and a call that starts after another
\* has completed gets an address at or beyond the end of the other's range.
C2_AtomicRanges ==
    \A s \in Sinks :
        \A j \in 1..Len(done[s]) :
            /\ Contiguous(s, done[s][j])
            /\ \A i \in 1..Len(done[s]) :
                /\ i # j => Disjoint(done[s][i], done[s][j])
                /\ i <= done[s][j].st =>
                       done[s][j].addr >= done[s][i].addr + done[s][i].n

\* Two calls were in progress on one paged writer at once, the one issued
\* later completed first, and the file has been written out.
C2_Witness ==
    /\ backend = "paged"
    /\ shpc = "done"
    /\ \E s \in sinks :
        /\ Len(done[s]) >= 2
        /\ done[s][2].st = 0
        /\ done[s][1].c > done[s][2].c
        /\ done[s][1].n > 0

\* ------------------------------------------------------------------ C3
\* The bytes of a set of completed calls, concatenated in address order.
RECURSIVE ByAddr(_)
ByAddr(S) ==
    IF S = {} THEN << >>
    ELSE LET m == CHOOSE x \in S : \A y \in S : x.addr <= y.addr
         IN m.bytes \o ByAddr(S \ {m})

\* What a non-paged sink holds for the writes made through sink s.
WrittenInAddrOrder(s) == ByAddr({done[s][i] : i \in 1..Len(done[s])})

\* C3: for the background-thread paged sink, once all writers and the shared
\* state are dropped, the payloads of the pages carrying a writer's tag,
\* concatenated in file order, are exactly the bytes written through that
\* writer in address order, whatever the interleaving.
C3_PagedReconstruction ==
    (backend = "paged" /\ shpc = "done") =>
        \A s \in sinks : StreamOf(file, PageTag(s)) = WrittenInAddrOrder(s)

\* Two writers wrote concurrently; the second writer's first page precedes
\* the first writer's page in the file.
C3_Witness ==
    /\ backend = "paged"
    /\ test = 0
    /\ shpc = "done"
    /\ sinks = {1, 2}
    /\ Len(done[1]) >= 1
    /\ Len(done[2]) >= 2
    /\ NumPages(file) >= 3
    /\ TagOf(PageAt(file, 1)) = PageTag(2)
    /\ TagOf(PageAt(file, 2)) = PageTag(1)

\* ------------------------------------------------------------------ C4
\* The page [tag, payload length as big-endian u32, payload, zero padding].
MakePage(tag, payload) ==
    <<tag, 0, 0, 0, Len(payload)>> \o payload
        \o Zeros(PAGE_SIZE - PAGE_HEADER_SIZE - Len(payload))

\* Greedy packing of the writes ws, in order, behind the payload cur of the
\* page being filled: a write goes to a new page exactly when it does not
\* fit in the space left.
RECURSIVE GreedyPages(_, _, _)
GreedyPages(ws, cur, tag) ==
    IF ws = << >> THEN << MakePage(tag, cur) >>
    ELSE IF Len(cur) + Len(Head(ws)) > PAGE_SIZE - PAGE_HEADER_SIZE
         THEN << MakePage(tag, cur) >> \o GreedyPages(Tail(ws), Head(ws), tag)
         ELSE GreedyPages(Tail(ws), cur \o Head(ws), tag)

\* The writes made through sink s, in call order.
WritesOf(s) == [i \in 1..Len(done[s]) |-> done[s][i].bytes]

\* C4: a single PagedWriter with page size P and tag t, after writes of at
\* most P - 5 bytes each and the drop of the writer and of the shared state,
\* has produced P-byte pages [t, payload length as big-endian u32, payload,
\* zero padding], the writes packed greedily in call order, none split, a
\* new page started exactly when the next write does not fit.  With P = 8:
\* [11,22,33] gives one page; [11,22,33],[80,70,60] two full pages;
\* [11,22],[10,20] two pages with one padding byte each.
C4_SingleWriterLayout ==
    (backend = "paged" /\ sinks = {1} /\ shpc = "done") =>
        /\ file = Flatten(GreedyPages(WritesOf(1), << >>, PageTag(1)))
        /\ test = 1 => file = <<42, 0, 0, 0, 3, 11, 22, 33>>
        /\ test = 2 => file = <<42, 0, 0, 0, 3, 11, 22, 33,
                                42, 0, 0, 0, 3, 80, 70, 60>>
        /\ test = 3 => file = <<42, 0, 0, 0, 2, 11, 22, 0,
                                42, 0, 0, 0, 2, 10, 20, 0>>

\* Three concurrent writes on a single writer ended up as a padded page of
\* two writes followed by a second page.
C4_Witness ==
    /\ backend = "paged"
    /\ test = 0
    /\ sinks = {1}
    /\ shpc = "done"
    /\ Len(done[1]) = 3
    /\ NumPages(file) = 2
    /\ PayloadLen(PageAt(file, 1)) = 2
    /\ file[PAGE_SIZE] = 0

\* ------------------------------------------------------------------ C5
\* C5: pages of different writers appear in the file in the order in which
\* they were handed off (on overflow or at the writer's drop).  With page
\* size 8 and writers tagged 42 and 43, the writes 42:[44,55], 43:[50,60,70],
\* 42:[88,99], 43:[140,150], then drop of 42, then drop of 43, give exactly
\* the pages 42|2, 43|3, 42|2, 43|2 in that order.
C5_HandOffOrder ==
    backend = "paged" =>
        /\ NumPages(file) <= Len(sent)
        /\ file = Flatten(SubSeq(sent, 1, NumPages(file)))
        /\ (test = 5 /\ shpc = "done") =>
              file = <<42, 0, 0, 0, 2, 44, 55, 0,
                       43, 0, 0, 0, 3, 50, 60, 70,
                       42, 0, 0, 0, 2, 88, 99, 0,
                       43, 0, 0, 0, 2, 140, 150, 0>>

\* The run of test_alternating_page_tags_multiple is over, its four pages
\* written.
C5_Witness ==
    /\ test = 5
    /\ shpc = "done"
    /\ NumPages(file) = 4
    /\ Len(done[1]) = 2
    /\ Len(done[2]) = 2

\* ------------------------------------------------------------------ C6
\* C6: once every PagedWriter is dropped, the drop of the shared state
\* terminates: the worker receives the zero-length page, leaves its loop and
\* is joined; and when the drop has returned, the bytes written to the file
\* after the file header are an exact multiple of the page size.
C6_SentinelShutdown ==
    /\ (shpc = "join") ~> (shpc = "done")
    /\ [](shpc = "done" =>
            /\ bgpc = "exited"
            /\ chan = << >>
            /\ Len(file) % PAGE_SIZE = 0)

\* The drop of the shared state has returned after the worker wrote at
\* least two pages, one of them received only after the drop had begun.
C6_Witness ==
    /\ backend = "paged"
    /\ shpc = "done"
    /\ bgpc = "exited"
    /\ Len(file) >= 2 * PAGE_SIZE
    /\ peak >= 2

\* ------------------------------------------------------------------ C7
\* Messages on the channel that are pages, in order.
PagesOn(ch) == SelectSeq(ch, LAMBDA m : m # 0)

\* C7: the zero-length page is the last message put on the channel: no
\* writer sends a page after it, and every page sent by a writer is received
\* before it and written to the file exactly once before the worker exits.
C7_SentinelLast ==
    /\ [](backend = "paged" =>
            /\ \A i \in 1..Len(chan) : chan[i] = 0 => i = Len(chan) /\ shpc # "alive"
            /\ Len(sent) = NumPages(file) + Len(PagesOn(chan))
            /\ bgpc = "exited" => chan = << >> /\ file = Flatten(sent))
    /\ [][shpc # "alive" => sent' = sent]_vars

\* The worker has exited after the zero-length page followed three pages of
\* two writers on the channel.
C7_Witness ==
    /\ backend = "paged"
    /\ bgpc = "exited"
    /\ sinks = {1, 2}
    /\ Len(sent) >= 3
    /\ peak >= 3

\* ------------------------------------------------------------------ C8
\* C8: in every reachable state of the background-thread paged sink, every
\* buffer in the free pool has length PAGE_SIZE and is all zero; so the
\* buffer a writer obtains after a page overflow, popped from the pool or
\* freshly allocated, is all zero before the writer fills it.
C8_PoolBuffersZeroed ==
    backend = "paged" =>
        /\ \A i \in 1..Len(free_buffers) :
               /\ Len(heap[free_buffers[i]]) = PAGE_SIZE
               /\ heap[free_buffers[i]] = Zeros(PAGE_SIZE)
        /\ \A t \in Threads :
               (tpc[t] = "locked" /\ tcall[t].sw) =>
                   heap[buffer[tcall[t].s]] = Zeros(PAGE_SIZE)

\* Writer 1 has just obtained, after an overflow, the buffer it started
\* with: that buffer has been filled, sent, written, cleared and pooled.
C8_Witness ==
    /\ backend = "paged"
    /\ \E t \in Threads :
        /\ tpc[t] = "locked"
        /\ tcall[t].sw
        /\ tcall[t].s = 1
    /\ buffer[1] = INITIAL_FREE_BUFFERS + 1
    /\ Len(sent) >= 2

\* ------------------------------------------------------------------ C9
\* Number of places of each role that hold buffer id.
AsWriterPage(id) == Cardinality({s \in Sinks : buffer[s] = id})
InPool(id) == Cardinality({i \in 1..Len(free_buffers) : free_buffers[i] = id})
\* In flight: handed off by its writer and not yet back in the pool, that is
\* about to be sent, on the channel, or being written to the file.
HandedOff(id) ==
    Cardinality({t \in Threads : tpc[t] = "locked" /\ tcall[t].sw /\ tcall[t].payload = id})
    + Cardinality({i \in 1..Len(chan) : chan[i] = id})
    + (IF page = id THEN 1 ELSE 0)

\* C9: each page buffer of the background-thread paged sink is held by
\* exactly one role at any instant: a writer's in-progress page, in flight,
\* or in the free pool.  None is reachable from two roles at once and none
\* that is still allocated is in none of them.
C9_OneRolePerBuffer ==
    backend = "paged" =>
        \A id \in 1..Len(heap) :
            AsWriterPage(id) + HandedOff(id) + InPool(id)
                = (IF id \in freed THEN 0 ELSE 1)

\* Every role is occupied at once, by different buffers, one of them
\* recycled through the pool.
C9_Witness ==
    /\ backend = "paged"
    /\ chan # << >> /\ Head(chan) # 0
    /\ page # 0
    /\ free_buffers # << >>
    /\ buffer[1] = INITIAL_FREE_BUFFERS + 1
    /\ Len(sent) >= 2

\* ----------------------------------------------------------------- C10
\* Page-sized buffers allocated and not deallocated.
LiveBuffers == Len(heap) - Cardinality(freed)

\* C10 as stated: at any instant the live page-sized buffers number at most
\* the initial pool size (3) plus the pages in flight on the channel.
C10_Original ==
    backend = "paged" => LiveBuffers <= INITIAL_FREE_BUFFERS + Len(PagesOn(chan))

\* C10, amended: at any instant the live page-sized buffers number at most
\* the writers created plus the larger of the initial pool size (3) and the
\* largest number of pages in flight at once so far.
C10_LiveBuffersBound ==
    backend = "paged" =>
        LiveBuffers <= Cardinality(sinks) + Max(INITIAL_FREE_BUFFERS, peak)

\* A burst has emptied the pool and forced a fresh allocation: more buffers
\* are live than the pool and the writers started with.
C10_Witness ==
    /\ backend = "paged"
    /\ peak > INITIAL_FREE_BUFFERS
    /\ LiveBuffers > INITIAL_FREE_BUFFERS + Cardinality(sinks)
    /\ LiveBuffers = Cardinality(sinks) + peak

\* ----------------------------------------------------------------- C11
\* The run is a generated scenario; its operations from the start.
InScenario == test >= FirstScenario
ScenarioOps == SeqScript(test - FirstScenario)

\* Every operation of the scenario has been performed and the file is final.
ScenarioComplete ==
    /\ InScenario
    /\ script = << >>
    /\ \A t \in Threads : tpc[t] = "idle"
    /\ \A s \in Sinks : ~alive[s]
    /\ backend = "paged" => shpc = "done"

\* C11: for the same writer creations, write_atomic calls and writer drops
\* performed one after another, the background-thread paged sink and the
\* synchronous paged sink return the same Addr for every call and produce
\* the same file, byte for byte.
C11_PagedVariantsAgree ==
    InScenario =>
        LET v2 == Paged2Run(Paged2Start, ScenarioOps)
        IN /\ \A s \in Sinks : \A i \in 1..Len(done[s]) :
                  /\ i <= Len(v2.ret[s])
                  /\ done[s][i].addr = v2.ret[s][i]
           /\ ScenarioComplete =>
                  /\ file = v2.file
                  /\ \A s \in Sinks : Len(done[s]) = Len(v2.ret[s])

\* The background-thread sink has completed a scenario in which both writers
\* wrote and the pages of the two tags alternate in the file.
C11_Witness ==
    /\ ScenarioComplete
    /\ backend = "paged"
    /\ Len(done[1]) >= 2
    /\ Len(done[2]) >= 1
    /\ done[1][2].addr > 0
    /\ NumPages(file) >= 3
    /\ TagOf(PageAt(file, 1)) = PageTag(1)
    /\ TagOf(PageAt(file, 2)) = PageTag(2)
    /\ TagOf(PageAt(file, 3)) = PageTag(1)

\* ----------------------------------------------------------------- C12
\* The largest number of bytes one write on a paged writer may have.
MaxWrite == PAGE_SIZE - PAGE_HEADER_SIZE

\* C12: write_atomic(n, ..) on a paged writer with n > PAGE_SIZE - 5 fails
\* fatally and, the check coming before the writer's lock, leaves the
\* writer's addr, buf_pos and page buffer, the channel and the free pool as
\* they were and never runs the fill closure; so for both paged variants,
\* while every n <= PAGE_SIZE - 5 is accepted.
C12_OversizePanics ==
    /\ [](\A t \in Threads : tpc[t] = "panicked" =>
              backend \in {"paged", "paged2"} /\ tcall[t].n > MaxWrite)
    /\ [](\A t \in Threads : tpc[t] = "locked" => tcall[t].n <= MaxWrite)
    /\ [](\A s \in Sinks : \A i \in 1..Len(done[s]) : done[s][i].n <= MaxWrite)
    /\ [][\A t \in Threads :
            (tpc[t] = "called" /\ tcall[t].n > MaxWrite /\ tpc'[t] # "called") =>
                /\ tpc'[t] = "panicked"
                /\ UNCHANGED <<addr, buf_pos, buffer, lock, heap, chan,
                               free_buffers, file, sent, done>>]_vars

\* A call one byte too long has panicked on the synchronous sink after a
\* call of exactly PAGE_SIZE - 5 bytes was accepted on the same writer.
C12_Witness ==
    /\ backend = "paged2"
    /\ \E t \in Threads :
        /\ tpc[t] = "panicked"
        /\ tcall[t].n = MaxWrite + 1
        /\ Len(done[tcall[t].s]) >= 1
        /\ done[tcall[t].s][1].n = MaxWrite
        /\ addr[tcall[t].s] = MaxWrite

\* ----------------------------------------------------------------- C13
\* The chunks of a set of completed calls, in address order.
RECURSIVE ChunksByAddr(_)
ChunksByAddr(S) ==
    IF S = {} THEN << >>
    ELSE LET m == CHOOSE x \in S : \A y \in S : x.addr <= y.addr
         IN << <<m.c, m.n>> >> \o ChunksByAddr(S \ {m})

\* C13: for FileSerializationSink, after any sequence of write_atomic and
\* write_bytes_atomic calls of any sizes (below, at or above the 512 KiB
\* buffer, below or above the 128-byte bulk threshold) and the drop, the
\* file is the concatenation of the written byte strings in the order of
\* their returned addresses: nothing lost, duplicated or reordered.
C13_FileContents ==
    backend = "file" =>
        \A s \in sinks :
            /\ alive[s] => buf_pos[s] = ChunkBytes(fbuf[s])
            /\ buf_pos[s] <= FILE_BUFFER_SIZE
            /\ ~alive[s] =>
                   /\ ffile[s] = ChunksByAddr({done[s][i] : i \in 1..Len(done[s])})
                   /\ ChunkBytes(ffile[s]) = addr[s]

\* A dropped file sink took three calls from two threads, one overtaking
\* another: one longer than the buffer, one bulk write, one buffered write.
C13_Witness ==
    /\ backend = "file"
    /\ ~alive[1]
    /\ Len(done[1]) = 3
    /\ \E i \in 1..3 : done[1][i].n > FILE_BUFFER_SIZE /\ done[1][i].op = "write_atomic"
    /\ \E i \in 1..3 : done[1][i].n = BULK_THRESHOLD /\ done[1][i].op = "write_bytes_atomic"
    /\ \E i \in 1..3 : done[1][i].n < BULK_THRESHOLD
    /\ \E i \in 1..2 : done[1][i].c > done[1][i + 1].c

\* ----------------------------------------------------------------- C14
\* Input lengths tried on both implementations.
ProbeSizes ==
    {0, 1, BULK_THRESHOLD - 1, BULK_THRESHOLD, BULK_THRESHOLD + 1,
     FILE_BUFFER_SIZE - BULK_THRESHOLD, FILE_BUFFER_SIZE, FILE_BUFFER_SIZE + 1}

\* The file once the sink in state r is dropped, as the chunks that hold
\* bytes (a call of length 0 contributes none).
FileAfterDrop(r) ==
    SelectSeq(IF r.pos > 0 THEN r.file \o r.buf ELSE r.file, LAMBDA q : q[2] > 0)

\* One call of op on the sink in state r.
FileCall(r, op, c, n) ==
    IF op = "write_bytes_atomic"
    THEN FileWriteBytesAtomicBody(r.file, r.buf, r.pos, c, n)
    ELSE FileWriteAtomicBody(r.file, r.buf, r.pos, c, n)

\* C14: FileSerializationSink's own write_bytes_atomic(bytes) behaves, as far
\* as can be observed, like the trait's default write_atomic(bytes.len(),
\* copy bytes): from the same sink state both return the same Addr, advance
\* addr by the same amount and lead to the same file after drop, for every
\* input length.
C14_BulkWriteEquivalent ==
    backend = "file" =>
        \A s \in sinks :
            LET r0 == [file |-> ffile[s], buf |-> fbuf[s], pos |-> buf_pos[s]]
            IN /\ alive[s] =>
                   \A n \in ProbeSizes :
                       LET own == FileCall(r0, "write_bytes_atomic", 8, n)
                           dflt == FileCall(r0, "write_atomic", 8, n)
                       IN /\ FileAfterDrop(own) = FileAfterDrop(dflt)
                          /\ \A m \in ProbeSizes, op \in OpsFor("file") :
                                 FileAfterDrop(FileCall(own, op, 9, m))
                                     = FileAfterDrop(FileCall(dflt, op, 9, m))
               /\ \A i \in 1..Len(done[s]) :
                      /\ done[s][i].addr = SizeSum(s, i - 1)
                      /\ (IF i < Len(done[s]) THEN done[s][i + 1].addr ELSE addr[s])
                             = done[s][i].addr + done[s][i].n

\* A live file sink with bytes in its buffer, on which a bulk write of 128
\* bytes goes straight to the file while the default would buffer it; both
\* kinds of call have completed on it.
C14_Witness ==
    /\ backend = "file"
    /\ alive[1]
    /\ buf_pos[1] > 0
    /\ \E i \in 1..Len(done[1]) : done[1][i].op = "write_bytes_atomic" /\ done[1][i].n >= BULK_THRESHOLD
    /\ \E i \in 1..Len(done[1]) : done[1][i].op = "write_atomic"
    /\ FileWriteBytesAtomicBody(ffile[1], fbuf[1], buf_pos[1], 8, BULK_THRESHOLD)
           # FileWriteAtomicBody(ffile[1], fbuf[1], buf_pos[1], 8, BULK_THRESHOLD)

\* ---------------------------------------------------------------------------
\* C15: every plain string allocated with alloc, one allocation after another,
\* is returned unchanged by get(id).to_string() on the table built from the
\* data and index bytes, for any strings, the empty string and repeated
\* strings included.
Quiescent == \A t \in Threads : apc[t] \in {"idle", "panicked"}

PlainAllocs == {i \in DOMAIN allocated : allocated[i].op = "alloc" /\ allocated[i].v.k = "str"}

C15_PlainRoundTrip ==
    (backend = "table_test" /\ Quiescent) =>
        \A i \in PlainAllocs :
            to_string(TableRead, allocated[i].id, debug_assertions)
                = [r |-> "ok", output |-> allocated[i].v.s]

\* ---------------------------------------------------------------------------
\* C16: a composite entry [Value(a), Ref(x), Value(b)] resolves to
\* a || resolve(x) || b, for every id x that alloc or
\* alloc_with_reserved_id has returned and that resolves by itself.
CompositeAllocs == {i \in DOMAIN allocated : allocated[i].v.k = "composite"}

Resolved(id) == to_string(TableRead, id, debug_assertions)

C16_CompositeResolution ==
    (backend = "table_test" /\ Quiescent) =>
        \A i \in CompositeAllocs :
            LET cs == allocated[i].v.cs
                x == Resolved(cs[2].id)
            IN  x.r = "ok" =>
                    Resolved(allocated[i].id)
                        = [r |-> "ok", output |-> cs[1].s \o x.output \o cs[3].s]

\* ---------------------------------------------------------------------------
\* C17: for every StringId the builder has issued (alloc) or accepted
\* (alloc_with_reserved_id), the first of the four bytes written for a
\* reference to it passes the reader's test for a reference, and so is read
\* neither as inline UTF-8 nor as the terminator.
C17_RefFirstByteIsMarker ==
    \A id \in IssuedIds :
        /\ IsRefMarker(RefBytes(id)[1])
        /\ RefBytes(id)[1] # TERMINATOR

\* ---------------------------------------------------------------------------
\* C18: after any sequence of allocations, every id alloc returned lies in
\* (METADATA_STRING_ID, MAX_STRING_ID], every id alloc_with_reserved_id
\* accepted lies in [0, MAX_PRE_RESERVED_STRING_ID], and METADATA_STRING_ID
\* is MAX_PRE_RESERVED_STRING_ID + 1; so no id returned by alloc is a
\* reserved id or the metadata id.
ReturnedBy(op) == {allocated[i].id : i \in {j \in DOMAIN allocated : allocated[j].op = op}}

C18_IdRanges ==
    /\ METADATA_STRING_ID = MAX_PRE_RESERVED_STRING_ID + 1
    /\ \A id \in ReturnedBy("alloc") :
            U32Less(METADATA_STRING_ID, id) /\ U32LessEq(id, MAX_STRING_ID)
    /\ \A id \in ReturnedBy("alloc_with_reserved_id") :
            U32LessEq(0, id) /\ U32LessEq(id, MAX_PRE_RESERVED_STRING_ID)
    /\ \A id \in ReturnedBy("alloc") :
            id # METADATA_STRING_ID /\ ~U32LessEq(id, MAX_PRE_RESERVED_STRING_ID)

\* ---------------------------------------------------------------------------
\* C19: the id counter starts at METADATA_STRING_ID + 1 and every alloc call
\* strictly increases it, whatever the number of calls and of threads, calls
\* made after an alloc failed its MAX_STRING_ID check included: each call
\* leaves the counter above its previous value and above METADATA_STRING_ID.
C19_CounterIncreases ==
    [][(\E t \in Threads : AllocDrawId(t)) =>
            /\ U32Less(id_counter, id_counter')
            /\ U32Less(METADATA_STRING_ID, id_counter')]_vars

\* ---------------------------------------------------------------------------
\* C20: when several threads call alloc concurrently, no two calls obtain
\* the same StringId, in any interleaving: the ids of the alloc calls that
\* returned and of those still in progress are pairwise different.
Drawn(t) == apc[t] \in {"unchecked", "written"} /\ acall[t].op = "alloc"

AllocReturns == {i \in DOMAIN allocated : allocated[i].op = "alloc"}

C20_DistinctIds ==
    /\ \A i, j \in AllocReturns : i # j => allocated[i].id # allocated[j].id
    /\ \A t \in Threads : \A i \in AllocReturns :
            Drawn(t) => acall[t].id # allocated[i].id
    /\ \A t, u \in Threads : (t # u /\ Drawn(t) /\ Drawn(u)) => acall[t].id # acall[u].id

\* Two alloc calls overlap after an earlier one has returned.
C20_Witness ==
    /\ backend = "table_shared"
    /\ \A t \in Threads : Drawn(t)
    /\ AllocReturns # {}

\* C21: every successful allocation (alloc, alloc_with_reserved_id,
\* alloc_metadata) appends exactly one string entry to the data sink and
\* exactly one 8-byte index entry (id, addr) to the index sink, where addr is
\* the address the data sink returned for that same allocation.  In every
\* interleaving the index sink is its header followed by one whole entry per
\* returned allocation, each pairing the allocation's id with the address at
\* which its own string entry lies; the data sink is its header followed by
\* the entries of the allocations that have written, none overlapping.
RECURSIVE IndexEntriesOf(_)
IndexEntriesOf(allocs) ==
    IF allocs = << >> THEN << >>
    ELSE IndexEntry(Head(allocs).id, Head(allocs).addr) \o IndexEntriesOf(Tail(allocs))

\* The allocations that have written their string entry.
DataWritten ==
    {allocated[i] : i \in DOMAIN allocated}
    \cup {acall[t] : t \in {u \in Threads : apc[u] = "written"}}

LiesAt(a) ==
    /\ a.addr + Len(Serialize(a.v)) <= Len(data[DataSink])
    /\ SubSeq(data[DataSink], a.addr + 1, a.addr + Len(Serialize(a.v))) = Serialize(a.v)

RECURSIVE SumOfEntryLengths(_)
SumOfEntryLengths(as) ==
    IF as = {} THEN 0
    ELSE LET a == CHOOSE x \in as : TRUE
         IN  Len(Serialize(a.v)) + SumOfEntryLengths(as \ {a})

\* StringTableBuilder::new has returned the builder.
BuilderExists == \A t \in Threads : apc[t] \notin {"new_events", "new_data", "new_index"}

C21_OneEntryEach ==
    (backend \in TableBackends /\ BuilderExists) =>
        /\ data[IndexSink] =
                FileHeader(FILE_MAGIC_STRINGTABLE_INDEX) \o IndexEntriesOf(allocated)
        /\ \A a \in DataWritten : a.addr >= FILE_HEADER_SIZE /\ LiesAt(a)
        /\ \A a, b \in DataWritten :
                a # b => \/ a.addr + Len(Serialize(a.v)) <= b.addr
                         \/ b.addr + Len(Serialize(b.v)) <= a.addr
        /\ Cardinality(DataWritten) =
                Len(allocated) + Cardinality({t \in Threads : apc[t] = "written"})
        /\ Len(data[DataSink]) = FILE_HEADER_SIZE + SumOfEntryLengths(DataWritten)

\* Two overlapping allocations of different strings have returned in the
\* order opposite to that of their data writes.
C21_Witness ==
    /\ backend = "table_shared"
    /\ Len(allocated) = 2
    /\ allocated[1].addr > allocated[2].addr
    /\ Len(Serialize(allocated[1].v)) # Len(Serialize(allocated[2].v))

\* C22: the reader tolerates an unsorted index.  For an index that holds each
\* id at most once, the string every id resolves to is the same for every
\* permutation of the index entries.  (Resolution is a function of the table
\* and the id, so it is only computed where the two tables differ.)
IndexOrders(n) == {p \in [1..n -> 1..n] : \A i, j \in 1..n : i # j => p[i] # p[j]}

RECURSIVE Permuted(_, _, _)
Permuted(allocs, p, i) ==
    IF i > Len(allocs) THEN << >>
    ELSE IndexEntry(allocs[p[i]].id, allocs[p[i]].addr) \o Permuted(allocs, p, i + 1)

\* The index sink with its entries in the order p.
PermutedIndex(p) == FileHeader(FILE_MAGIC_STRINGTABLE_INDEX) \o Permuted(allocated, p, 1)

EachIdOnce == \A i, j \in DOMAIN allocated : i # j => allocated[i].id # allocated[j].id

C22_IndexOrderIrrelevant ==
    (backend \in TableBackends /\ Quiescent /\ EachIdOnce) =>
        \A p \in IndexOrders(Len(allocated)) :
            LET permuted == StringTableNew(data[DataSink], PermutedIndex(p))
            IN  /\ permuted.r = "ok"
                /\ \/ permuted = TableRead
                   \/ \A id \in IssuedIds :
                        to_string(permuted, id, debug_assertions)
                            = to_string(TableRead, id, debug_assertions)

\* An index that is not sorted by id, of a table in which a string and a
\* composite referring to it resolve.
C22_Witness ==
    /\ backend = "table_test"
    /\ EachIdOnce
    /\ \E i, j \in DOMAIN allocated : i < j /\ U32Less(allocated[j].id, allocated[i].id)
    /\ \E i \in CompositeAllocs : Resolved(allocated[i].id).r = "ok"

\* ---------------------------------------------------------------------------
\* C23: in every table produced through alloc and alloc_with_reserved_id,
\* with Ref components built from any StringId, StringId::reserved included,
\* every reference component points to an id that was allocated before the
\* entry containing it, and resolving an id never recurses without end.
RefsOf(v) == {v.cs[k].id : k \in {j \in DOMAIN v.cs : v.cs[j].k = "ref"}}

\* The table holds no character whose decoding is the matter of C15.
NoFourByteChars ==
    \A i \in DOMAIN allocated :
        /\ \A k \in DOMAIN allocated[i].v.s : allocated[i].v.s[k] < 65536
        /\ \A c \in DOMAIN allocated[i].v.cs :
                \A k \in DOMAIN allocated[i].v.cs[c].s : allocated[i].v.cs[c].s[k] < 65536

C23_ReferencesPointBack ==
    (backend = "table_test" /\ Quiescent) =>
        /\ \A i \in DOMAIN allocated : \A x \in RefsOf(allocated[i].v) :
                \E j \in 1..(i - 1) : allocated[j].id = x
        /\ NoFourByteChars =>
                \A id \in IssuedIds : Resolved(id).r # "diverges"

\* ---------------------------------------------------------------------------
\* C24: an allocation that fails its id check (alloc_with_reserved_id with an
\* id above MAX_PRE_RESERVED_STRING_ID, alloc drawing an id above
\* MAX_STRING_ID) fails fatally before anything is written: the step that
\* makes the check ends the call with both sinks unchanged, the caller does
\* nothing afterwards, and every byte a sink receives comes from a call that
\* has passed its check (or is a header written at construction).
FailsIdCheck(t) ==
    /\ apc[t] = "called"
    /\ \/ /\ acall[t].op = "alloc_with_reserved_id"
          /\ U32Less(MAX_PRE_RESERVED_STRING_ID, acall[t].id)
       \/ /\ acall[t].op = "alloc"
          /\ U32Less(MAX_STRING_ID, id_counter)

C24_FailedCheckWritesNothing ==
    [][\A t \in Threads :
        /\ (FailsIdCheck(t) /\ apc'[t] # apc[t]) => apc'[t] = "panicked"
        /\ (apc[t] # "panicked" /\ apc'[t] = "panicked") =>
                (data'[DataSink] = data[DataSink] /\ data'[IndexSink] = data[IndexSink])
        /\ (apc[t] = "panicked") => (apc'[t] = "panicked" /\ acall'[t] = acall[t])
        /\ (apc'[t] # apc[t] /\ data' # data) =>
                apc[t] \in {"unchecked", "written", "new_data", "new_index"}
      ]_vars

\* One thread's alloc_with_reserved_id and the other's alloc have failed
\* their checks, and the sinks hold their headers only.
C24_Witness ==
    /\ backend = "table_shared"
    /\ \E t, u \in Threads :
            /\ apc[t] = "panicked" /\ acall[t].op = "alloc_with_reserved_id"
            /\ apc[u] = "panicked" /\ acall[u].op = "alloc"
            /\ U32Less(MAX_STRING_ID, WrappingAddU32(id_counter, -1))
    /\ data[DataSink] = FileHeader(FILE_MAGIC_STRINGTABLE_DATA)
    /\ data[IndexSink] = FileHeader(FILE_MAGIC_STRINGTABLE_INDEX)

\* ---------------------------------------------------------------------------
\* C25: in any profiler session, after any sequence of alloc_string,
\* record_instant_event and interval recordings from any threads, the string
\* index contains exactly one entry with id METADATA_STRING_ID: the one
\* Profiler::new writes.
IndexEntriesRead ==
    LET body == strip_file_header(data[IndexSink])
    IN  [i \in 1..(Len(body) \div 8) |-> deserialize_index_entry(SubSeq(body, 8 * i - 7, 8 * i))]

MetadataEntries ==
    {i \in DOMAIN IndexEntriesRead : IndexEntriesRead[i].id = METADATA_STRING_ID}

C25_OneMetadataEntry ==
    (backend = "profiler" /\ Constructed) => Cardinality(MetadataEntries) = 1

\* ---------------------------------------------------------------------------
\* C26: each of the three logical sinks (events, string_data, string_index)
\* begins with its file header: the header is written at address 0 before
\* any event, string entry or index entry can be written, so every record's
\* address is at least the header length.  This holds of the streams the
\* sinks receive, and so of the streams read back from the paged file.
BeginsWith(stream, magic) ==
    Len(stream) >= FILE_HEADER_SIZE /\ SubSeq(stream, 1, FILE_HEADER_SIZE) = FileHeader(magic)

C26_HeaderFirst ==
    backend = "profiler" =>
        /\ events = << >> \/ BeginsWith(events, FILE_MAGIC_EVENT_STREAM)
        /\ data[DataSink] = << >> \/ BeginsWith(data[DataSink], FILE_MAGIC_STRINGTABLE_DATA)
        /\ data[IndexSink] = << >> \/ BeginsWith(data[IndexSink], FILE_MAGIC_STRINGTABLE_INDEX)
        /\ \A i \in DOMAIN recorded :
                BeginsWith(events, FILE_MAGIC_EVENT_STREAM)
                /\ recorded[i].addr >= FILE_HEADER_SIZE
        /\ \A a \in DataWritten :
                BeginsWith(data[DataSink], FILE_MAGIC_STRINGTABLE_DATA)
                /\ a.addr >= FILE_HEADER_SIZE
        /\ \A i \in DOMAIN allocated :
                /\ BeginsWith(data[IndexSink], FILE_MAGIC_STRINGTABLE_INDEX)
                /\ SubSeq(data[IndexSink], FILE_HEADER_SIZE + 8 * i - 7, FILE_HEADER_SIZE + 8 * i)
                        = IndexEntry(allocated[i].id, allocated[i].addr)
        /\ Constructed =>
                /\ BeginsWith(PagedStream(EventsTag), FILE_MAGIC_EVENT_STREAM)
                /\ BeginsWith(PagedStream(StringDataTag), FILE_MAGIC_STRINGTABLE_DATA)
                /\ BeginsWith(PagedStream(StringIndexTag), FILE_MAGIC_STRINGTABLE_INDEX)

\* A Profiler built by Profiler::new has recorded an event and returned from
\* an alloc_string.
C26_Witness ==
    /\ backend = "profiler"
    /\ id_counter = METADATA_STRING_ID + 2
    /\ Len(allocated) = 2
    /\ Len(recorded) >= 1

\* ---------------------------------------------------------------------------
\* C27: in the paged multiplexed file, concatenating the payloads of the
\* pages with a given tag yields the stream body without a per-stream file
\* header.
EventsRecorded == [i \in DOMAIN recorded |-> recorded[i].e]

C27_PagedStreamsHaveNoHeader ==
    (backend = "profiler" /\ Constructed) =>
        /\ PagedStream(EventsTag) = SerializeAll(EventsRecorded)
        /\ PagedStream(StringIndexTag) = IndexEntriesOf(allocated)
        /\ ~BeginsWith(PagedStream(StringDataTag), FILE_MAGIC_STRINGTABLE_DATA)

\* C27, amended: concatenating the payloads of the pages with a given tag
\* yields the stream's file header followed by the stream body, for each of
\* the three streams; the string table reader accepts the two string streams
\* as they are.
C27_PagedStreamsKeepHeader ==
    (backend = "profiler" /\ Constructed) =>
        /\ PagedStream(EventsTag)
                = FileHeader(FILE_MAGIC_EVENT_STREAM) \o SerializeAll(EventsRecorded)
        /\ PagedStream(StringIndexTag)
                = FileHeader(FILE_MAGIC_STRINGTABLE_INDEX) \o IndexEntriesOf(allocated)
        /\ read_file_header(PagedStream(StringDataTag), FILE_MAGIC_STRINGTABLE_DATA)
                = CURRENT_FILE_FORMAT_VERSION
        /\ PagedStream(StringDataTag) = data[DataSink]
        /\ StringTableNew(PagedStream(StringDataTag), PagedStream(StringIndexTag)).r = "ok"

\* A session that was constructed by Profiler::new, with two events and a
\* string besides the metadata.
C27_Witness ==
    /\ backend = "profiler"
    /\ id_counter = METADATA_STRING_ID + 2
    /\ Quiescent
    /\ Len(allocated) = 2
    /\ Len(recorded) = 2

\* ---------------------------------------------------------------------------
\* C28: with instant events and guards used from several threads, every
\* recorded event occupies one contiguous range of exactly sizeof(RawEvent)
\* bytes; after its header the events stream is a whole number of complete
\* records, none interleaved with another; and the number of records is the
\* number of record_instant_event calls plus the number of guards dropped.
InstantCalls == {i \in DOMAIN recorded : recorded[i].by = "instant"}
GuardsDropped == {i \in DOMAIN recorded : recorded[i].by \in {"drop", "override"}}

GuardCreated(t) == guard[t] = NoGuard /\ guard'[t] # NoGuard
GuardGone(t) == guard[t] # NoGuard /\ guard'[t] = NoGuard

NeedsPage(t) ==
    PageOverflows(buf_pos[tcall[t].s], tcall[t].n, Len(BytesOf(buffer[tcall[t].s])))

C30_NeverWaitsForWorker ==
    backend = "paged" =>
        \A t \in Threads :
            /\ (tpc[t] = "called" /\ lock[tcall[t].s] = 0) => ENABLED PagedWriteAtomicLock(t)
            /\ tpc[t] = "locked" => ENABLED PagedWriteAtomicFinish(t)

\* C30, amended: a write_atomic call waits for the background thread only
\* while the worker holds the free pool's mutex for its push, and only if
\* the call has a full page to replace.  It never waits for the worker to
\* receive, write or return a page: with the pool's mutex free, a call that
\* is not waiting for another writer of its sink can take its next step,
\* however many pages lie unprocessed on the channel and even with the pool
\* empty.
C30_WaitsOnlyForPoolMutex ==
    backend = "paged" =>
        \A t \in Threads :
            /\ (tpc[t] = "called" /\ lock[tcall[t].s] = 0 /\ (PoolUnlocked \/ ~NeedsPage(t)))
                    => ENABLED PagedWriteAtomicLock(t)
            /\ tpc[t] = "locked" => ENABLED PagedWriteAtomicFinish(t)

\* The worker has not processed a single page, the pool is empty, and a
\* call is about to replace a full page.
C30_Witness ==
    /\ backend = "paged"
    /\ file = << >>
    /\ bgpc = "recv"
    /\ free_buffers = << >>
    /\ \E t \in Threads : tpc[t] = "called" /\ lock[tcall[t].s] = 0 /\ NeedsPage(t)

\* ---------------------------------------------------------------------------
\* C31: in FileSerializationSink::write_atomic(n, fill), when buf_pos + n
\* exceeds the buffer capacity the pending bytes [0, buf_pos) are flushed to
\* the file first; then if n <= capacity the new bytes are placed at offset 0
\* and buf_pos becomes n, otherwise they are written straight to the file
\* and buf_pos becomes 0; when buf_pos + n <= capacity nothing is written to
\* the file and buf_pos advances by n.  buf_pos never exceeds the capacity.
FileWriteAtomicBy(t) ==
    /\ backend = "file"
    /\ tpc[t] = "called"
    /\ tpc'[t] = "idle"
    /\ tcall[t].op = "write_atomic"

C31_FileWriteAtomicCases ==
    [][\A t \in Threads : FileWriteAtomicBy(t) =>
        LET s == tcall[t].s
            n == tcall[t].n
            new == << <<tcall[t].c, n>> >>
        IN  /\ buf_pos[s] + n <= FILE_BUFFER_SIZE =>
                /\ ffile'[s] = ffile[s]
                /\ fbuf'[s] = fbuf[s] \o new
                /\ buf_pos'[s] = buf_pos[s] + n
            /\ (buf_pos[s] + n > FILE_BUFFER_SIZE /\ n <= FILE_BUFFER_SIZE) =>
                /\ ffile'[s] = ffile[s] \o fbuf[s]
                /\ fbuf'[s] = new
                /\ buf_pos'[s] = n
            /\ n > FILE_BUFFER_SIZE =>
                /\ ffile'[s] = (ffile[s] \o fbuf[s]) \o new
                /\ fbuf'[s] = << >>
                /\ buf_pos'[s] = 0
            /\ buf_pos'[s] <= FILE_BUFFER_SIZE
            /\ buf_pos'[s] = ChunkBytes(fbuf'[s])
      ]_vars

\* Three write_atomic calls on one sink: the first was buffered, the second
\* did not fit behind it, flushed it and was placed at offset 0, the third
\* was longer than the buffer, flushed the second and went to the file.
C31_Witness ==
    /\ backend = "file"
    /\ \E s \in sinks :
            /\ alive[s]
            /\ Len(ffile[s]) = 3
            /\ ffile[s][1][2] = BULK_THRESHOLD
            /\ ffile[s][2][2] = FILE_BUFFER_SIZE - 100
            /\ ffile[s][3][2] > FILE_BUFFER_SIZE
            /\ \A i \in DOMAIN done[s] : done[s][i].op = "write_atomic"
            /\ Len(done[s]) = 3
            /\ buf_pos[s] = 0

\* ---------------------------------------------------------------------------
\* The pages among ps that carry tag, in order.
PagesTagged(ps, tag) == SelectSeq(ps, LAMBDA p : TagOf(p) = tag)

\* The pages of the file f, in order.
PagesIn(f) == [k \in 1..NumPages(f) |-> PageAt(f, k)]

\* The pages writer s has handed off, given the pages sent on the channel
\* and the file: to the channel on the background-thread sink, to the file
\* on the synchronous one.
HandedOffBy(sn, f, s) ==
    PagesTagged(IF backend = "paged" THEN sn ELSE PagesIn(f), PageTag(s))

\* The bytes written through s that no page handed off so far carries.
SinceLastHandOff(s) ==
    LET all == Flatten(WritesOf(s))
        gone == Len(Flatten([k \in DOMAIN HandedOffBy(sent, file, s) |->
                                PayloadOf(HandedOffBy(sent, file, s)[k])]))
    IN SubSeq(all, gone + 1, Len(all))

\* What the drop of a writer, and any step after it, does to its pages.
FinalPageHandedOff ==
    backend \in {"paged", "paged2"} =>
        \A s \in sinks :
            /\ (alive[s] /\ ~alive'[s]) =>
                  LET final == MakePage(PageTag(s), SinceLastHandOff(s))
                  IN /\ HandedOffBy(sent', file', s)
                          = Append(HandedOffBy(sent, file, s), final)
                     /\ backend = "paged" =>
                          /\ sent' = Append(sent, final)
                          /\ Len(chan') = Len(chan) + 1
                          /\ heap'[Last(chan')] = final
                     /\ backend = "paged2" => file' = file \o final
            /\ ~alive[s] =>
                  HandedOffBy(sent', file', s) = HandedOffBy(sent, file, s)

\* C32: dropping a PagedWriter hands off exactly one final page carrying its
\* tag and the payload length of the bytes written since the last hand-off,
\* even when that page is only partially filled or holds no payload at all;
\* the page is written verbatim, zero tail included.  Nothing is handed off
\* for a writer after its drop, and the file holds the pages as handed off.
C32_DropSendsFinalPage ==
    /\ [][FinalPageHandedOff]_vars
    /\ [](backend = "paged" =>
            /\ NumPages(file) <= Len(sent)
            /\ PagesIn(file) = SubSeq(sent, 1, NumPages(file))
            /\ shpc = "done" => NumPages(file) = Len(sent))

\* Both writers are dropped and the file is complete: one wrote nothing and
\* its only page has payload length 0, the other's final page is partially
\* filled and ends in zeros.
C32_Witness ==
    /\ backend = "paged"
    /\ sinks = {1, 2}
    /\ shpc = "done"
    /\ done[1] = << >>
    /\ Len(done[2]) = 1
    /\ PagesTagged(PagesIn(file), PageTag(1)) = << MakePage(PageTag(1), << >>) >>
    /\ Len(PagesTagged(PagesIn(file), PageTag(2))) = 1
    /\ PayloadLen(PagesTagged(PagesIn(file), PageTag(2))[1]) = 1
    /\ PagesTagged(PagesIn(file), PageTag(2))[1][PAGE_SIZE] = 0

\* ---------------------------------------------------------------------------
\* C33: in the composite_string test scenario (id0 = alloc("abc");
\* id1 = alloc([Ref(id0), Ref(id0)]); id6 = alloc([Value("xx"), Ref(id1),
\* Value("uuu"), Ref(id1), Value("qqq")])), resolving id1 yields "abcabc" and
\* resolving id6 yields "xxabcuuuabcqqq", as the test asserts.
C33_CompositeStringTest ==
    (backend = "composite_string" /\ Quiescent /\ Len(allocated) = 3) =>
        /\ Resolved(allocated[1].id) = [r |-> "ok", output |-> <<97, 98, 99>>]
        /\ Resolved(allocated[2].id)
                = [r |-> "ok", output |-> <<97, 98, 99, 97, 98, 99>>]
        /\ Resolved(allocated[3].id)
                = [r |-> "ok", output |-> <<120, 120, 97, 98, 99, 117, 117, 117,
                                           97, 98, 99, 113, 113, 113>>]

\* ---------------------------------------------------------------------------
\* C34: StringRef::write_to_string terminates for every entry the builder
\* wrote from a valid UTF-8 str, whatever characters it contains: on a byte
\* that is neither the terminator, nor a reference marker, nor a 1-, 2- or
\* 3-byte leader, the read position still advances and the loop ends.
C34_ResolutionTerminates ==
    (backend = "table_test" /\ Quiescent) =>
        \A i \in PlainAllocs : Resolved(allocated[i].id).r # "diverges"

\* ---------------------------------------------------------------------------
\* What a thread inside write_atomic waits for, if anything, can move: the
\* holder of the writer's lock can finish its call, the worker holding the
\* pool's mutex can push and release it.
CallCanProceed(t) ==
    IF backend = "paged2" THEN ENABLED Paged2WriteAtomic(t)
    ELSE IF tpc[t] = "locked" THEN ENABLED PagedWriteAtomicFinish(t)
    ELSE \/ ENABLED PagedWriteAtomicLock(t)
         \/ /\ lock[tcall[t].s] \in Threads \ {t}
            /\ ENABLED PagedWriteAtomicFinish(lock[tcall[t].s])
         \/ /\ lock[tcall[t].s] = 0
            /\ ~PoolUnlocked
            /\ ENABLED BgPush

\* The thread in join_handle.join() waits for a worker that can move or has
\* returned.
JoinCanProceed ==
    \/ ENABLED SharedDropJoin
    \/ ENABLED BgRecv
    \/ ENABLED BgPush

NoThreadStuck ==
    backend \in {"paged", "paged2"} =>
        /\ \A t \in Threads : tpc[t] \in {"called", "locked"} => CallCanProceed(t)
        /\ shpc = "join" => JoinCanProceed
        /\ bgpc = "push" => ENABLED BgPush
        /\ (bgpc = "recv" /\ chan # << >>) => ENABLED BgRecv
        /\ \A s \in sinks : (alive[s] /\ NoCallOn(s) /\ test = 0) =>
                ENABLED (PagedWriterDrop(s) \/ Paged2WriterDrop(s))

\* A writer takes the pool's mutex only inside its call, holding its own
\* lock; the worker takes and releases the pool's mutex without touching a
\* writer's lock.
LocksNestInOrder ==
    /\ \A t \in Threads :
            (tcall'[t].sw /\ ~tcall[t].sw) => (tpc'[t] = "locked" /\ lock'[tcall'[t].s] = t)
    /\ free_buffers' # free_buffers =>
            \/ \E t \in Threads : tcall'[t].sw /\ ~tcall[t].sw /\ lock'[tcall'[t].s] = t
            \/ bgpc = "push" /\ lock' = lock
            \/ shpc = "join" /\ shpc' = "done"
    /\ bgpc' # bgpc => lock' = lock

C36_OverflowPagesNotEmpty ==
    backend \in {"paged", "paged2"} =>
        \A s \in sinks :
            LET pages == HandedOffBy(sent, file, s)
            IN  \A k \in DOMAIN pages :
                    /\ (alive[s] \/ k < Len(pages)) => PayloadLen(pages[k]) >= 1
                    /\ PayloadLen(pages[k]) = 0 =>
                            /\ ~alive[s]
                            /\ k = Len(pages)
                            /\ Len(Flatten(WritesOf(s)))
                                    = Len(Flatten([j \in 1..(k - 1) |-> PayloadOf(pages[j])]))

\* A run with empty writes is over: an empty write on a full page did not
\* hand it off, the write after it did, and the writer's two pages both
\* carry payload.
C36_Witness ==
    /\ test < 0
    /\ ~alive[1]
    /\ Len(done[1]) = SeqLen
    /\ done[1][1].n = PAGE_SIZE - PAGE_HEADER_SIZE
    /\ done[1][2].n = 0
    /\ done[1][3].n = 1
    /\ done[1][4].n = 0
    /\ Len(HandedOffBy(sent, file, 1)) = 2
    /\ PayloadLen(HandedOffBy(sent, file, 1)[1]) = PAGE_SIZE - PAGE_HEADER_SIZE
    /\ PayloadLen(HandedOffBy(sent, file, 1)[2]) = 1

\* ---------------------------------------------------------------------------
\* The operations the run performs, in their fixed order.
OrderedOps == IF InScenario THEN ScenarioOps ELSE TestScript(test)

\* The pages the writers hand off when they perform ops in order, cur being
\* the payload each writer's page holds: a function of the operations alone.
\* A call that is too long ends the run.
RECURSIVE PagesOfOps(_, _)
PagesOfOps(ops, cur) ==
    IF ops = << >> THEN << >>
    ELSE LET o == Head(ops)
         IN IF o.k = "drop"
            THEN << MakePage(PageTag(o.s), cur[o.s]) >> \o PagesOfOps(Tail(ops), cur)
            ELSE IF Len(o.bytes) > MaxWrite THEN << >>
            ELSE IF Len(cur[o.s]) + Len(o.bytes) > MaxWrite
            THEN << MakePage(PageTag(o.s), cur[o.s]) >>
                     \o PagesOfOps(Tail(ops), [cur EXCEPT ![o.s] = o.bytes])
            ELSE PagesOfOps(Tail(ops), [cur EXCEPT ![o.s] = @ \o o.bytes])

\* C37: for a fixed order of writer operations (writes and drops), the bytes
\* of the file produced by the background-thread paged sink do not depend
\* on how the background thread is scheduled: whether a replacement buffer
\* is a recycled pool buffer or a fresh one, and however late pages are
\* flushed, the file grows along the same bytes and ends as the same file.
C37_FileIndependentOfWorker ==
    (backend = "paged" /\ test # 0) =>
        LET ref == Flatten(PagesOfOps(OrderedOps, [s \in Sinks |-> << >>]))
        IN  /\ Len(file) % PAGE_SIZE = 0
            /\ Len(file) <= Len(ref)
            /\ file = SubSeq(ref, 1, Len(file))
            /\ (/\ script = << >>
                /\ \A t \in Threads : tpc[t] = "idle"
                /\ NumPages(file) = Len(sent)) => file = ref

\* The burst of full-page writes has ended with a buffer allocated beyond
\* the pool, the worker having lagged behind; in other runs of the same
\* burst every replacement came from the pool.
C37_Witness ==
    /\ backend = "paged"
    /\ test = 6
    /\ script = << >>
    /\ ~alive[1]
    /\ Len(heap) > INITIAL_FREE_BUFFERS + Cardinality(sinks)
    /\ NumPages(file) = BurstLen

\* ---------------------------------------------------------------------------
\* C38: in every reachable state of a FileSerializationSink between
\* operations, the number of bytes already written to the file plus buf_pos
\* equals addr, and the buffer prefix [0, buf_pos) holds exactly the most
\* recently written bytes that are not yet in the file.
C38_FileSinkBookkeeping ==
    backend = "file" =>
        \A s \in sinks :
            LET written == ChunksByAddr({done[s][i] : i \in 1..Len(done[s])})
            IN  /\ ChunkBytes(ffile[s]) + (IF alive[s] THEN buf_pos[s] ELSE 0) = addr[s]
                /\ Len(ffile[s]) <= Len(written)
                /\ ffile[s] = SubSeq(written, 1, Len(ffile[s]))
                /\ alive[s] =>
                        /\ fbuf[s] = SubSeq(written, Len(ffile[s]) + 1, Len(written))
                        /\ buf_pos[s] = ChunkBytes(fbuf[s])

\* A live sink after three calls: a bulk write flushed the first call's
\* bytes and went to the file behind them, and the last call's bytes wait
\* in the buffer.
C38_Witness ==
    /\ backend = "file"
    /\ alive[1]
    /\ Len(done[1]) = 3
    /\ Len(ffile[1]) = 2
    /\ Len(fbuf[1]) = 1
    /\ done[1][2].op = "write_bytes_atomic"
    /\ done[1][2].n >= BULK_THRESHOLD
    /\ buf_pos[1] = done[1][3].n
    /\ addr[1] = done[1][1].n + done[1][2].n + done[1][3].n

\* ---------------------------------------------------------------------------
\* The address x lies inside the range a completed call y was given.
InsideRange(x, y) == U32LessEq(y.addr, x) /\ U32Less(x, y.addr + y.n)

\* C39: the 32-bit address counter of a sink never hands out an address that
\* lies inside a previously returned range: a write that would take the
\* cumulative byte count of a FileSerializationSink or paged writer past
\* 2^32 - 1 does not wrap the counter around to a small value.
C39_NoAddressReuse ==
    /\ [](backend \in {"file", "paged", "paged2"} =>
            \A s \in sinks : \A i, j \in DOMAIN done[s] :
                i < j => ~InsideRange(done[s][j].addr, done[s][i]))
    /\ [][\A s \in sinks : U32LessEq(addr[s], addr'[s])]_vars

\* ---------------------------------------------------------------------------
\* The start addresses of the string entries the data sink holds.
DataEntryStarts == {a.addr : a \in DataWritten}

\* At address x of the data sink d a string entry written by the builder
\* begins, complete and ended by the terminator.
CompleteEntryAt(d, x) ==
    \E a \in DataWritten :
        /\ a.addr = x
        /\ x >= FILE_HEADER_SIZE
        /\ x + Len(Serialize(a.v)) <= Len(d)
        /\ SubSeq(d, x + 1, x + Len(Serialize(a.v))) = Serialize(a.v)
        /\ d[x + Len(Serialize(a.v))] = TERMINATOR

IndexPointsAtEntries ==
    (backend \in TableBackends /\ BuilderExists) =>
        /\ Len(data[IndexSink]) = FILE_HEADER_SIZE + 8 * Len(IndexEntriesRead)
        /\ \A i \in DOMAIN IndexEntriesRead :
                CompleteEntryAt(data[DataSink], IndexEntriesRead[i].addr)
        /\ \A i, j \in DOMAIN IndexEntriesRead :
                i # j => IndexEntriesRead[i].addr # IndexEntriesRead[j].addr
        /\ Len(IndexEntriesRead) <= Cardinality(DataEntryStarts)
        /\ Quiescent => Len(IndexEntriesRead) = Cardinality(DataEntryStarts)

\* A step that writes to the index sink finds the entry it points to in the
\* data sink as it was before the step.
IndexAfterData ==
    (backend \in TableBackends /\ BuilderExists /\ data'[IndexSink] # data[IndexSink]) =>
        /\ data'[DataSink] = data[DataSink]
        /\ Len(data'[IndexSink]) = Len(data[IndexSink]) + 8
        /\ LET e == deserialize_index_entry(SubSeq(data'[IndexSink],
                                                    Len(data[IndexSink]) + 1,
                                                    Len(data'[IndexSink])))
           IN  CompleteEntryAt(data[DataSink], e.addr)

\* C40: whenever no allocation is in progress on a StringTableBuilder, the
\* index sink holds exactly as many 8-byte entries as the data sink holds
\* string entries, and every index entry's addr is the start address of a
\* distinct, complete, terminator-ended entry in the data sink; an index
\* entry is never written before the data entry it points to.
C40_IndexMatchesData ==
    /\ []IndexPointsAtEntries
    /\ [][IndexAfterData]_vars

\* No allocation is in progress on a shared builder after three allocations
\* by two threads, two of which wrote their index entries in the order
\* opposite to that of their string entries.
C40_Witness ==
    /\ backend = "table_shared"
    /\ Quiescent
    /\ Len(allocated) = 3
    /\ Len(IndexEntriesRead) = 3
    /\ Cardinality(DataEntryStarts) = 3
    /\ IndexEntriesRead[1].addr > IndexEntriesRead[2].addr

====
